---- MODULE Spec2Model ----
(***************************************************************************)
(* Carbon-aware placement engine (CAPE): the custom scheduler that watches *)
(* unscheduled pods, filters the nodes by readiness, NoSchedule taints and *)
(* free CPU/memory, scores the survivors by the carbon intensity of their  *)
(* region as found in the carbon cache file, and binds the pod.            *)
(*                                                                         *)
(* One step of the model is one complete run of a handler or one change    *)
(* made by the platform (node status, other workloads, the cache file, the *)
(* clock).  The platform's List calls are answered from the object store   *)
(* held in the variables nodes and pods.                                   *)
(***************************************************************************)
EXTENDS Integers, Sequences, FiniteSets, TLC

VARIABLES
    nodes,      \* node name -> [ready, taints]        (platform object store)
    pods,       \* pod name  -> [node, by, deleting, phase] (platform object store)
    store,      \* pods the informer holds, i.e. for which AddFunc has fired
    file,       \* content of the carbon cache file; its timestamp is kept as
                \* the number of minutes that have passed since it was stamped
    dec,        \* what the last AddFunc run logged; NoDec after any other step
    running,    \* the scheduler process is alive
    carbonAwareMode, \* CARBON_AWARE_MODE, read once at process start
    regionIntensity, \* CarbonRegionCache: the snapshot held in memory, or Null
    expiry,     \* CarbonRegionCache: minutes left until this.expiry
    apiKey,     \* CarbonRegionCache: the API key is set
    callers,    \* request handler -> where it stands in ensureFresh/repoll
    pollLog,    \* how the last call of ensureFresh/repoll ended; NoPoll
                \* after any other step
    inodes,     \* cache volume: file number -> the blocks written to it
    dir,        \* cache volume: path -> file number, NoFile when absent
    writer,     \* the poller's position in replacing the cache file
    reader,     \* the scheduler's position in os.ReadFile(cacheFile)
    handler,    \* pod -> how far AddFunc has come for it, when its calls to
                \* the platform are followed one by one
    cfg,        \* simulator: what one run is given (host list, configuration,
                \* policy, and the values math/rand hands out)
    sim         \* simulator: the locals of runSimulation and the host graph

engineVars == <<nodes, pods, store, file, dec, running, carbonAwareMode>>
cacheVars == <<regionIntensity, expiry, apiKey, callers, pollLog>>
volumeVars == <<inodes, dir, writer, reader>>
simVars == <<cfg, sim>>
vars == <<nodes, pods, store, file, dec, running, carbonAwareMode,
          regionIntensity, expiry, apiKey, callers, pollLog,
          inodes, dir, writer, reader, handler, cfg, sim>>

(***************************************************************************)
(* Bounds                                                                  *)
(***************************************************************************)
\* ttl_minutes written into every cache file of the model
TTL == 1
\* number of conditions (NotReady, NoSchedule) set on the nodes at a time
MaxUnavailable == 1
\* cache files older than this are not told apart
MaxAge == TTL + 1
\* number of times the poller replaces the cache file on the volume
MaxWrites == 4

(***************************************************************************)
(* Program constants                                                       *)
(***************************************************************************)
schedulerName == "custom-scheduler"
regionLabel == "carbon-region"
defaultRegionLabel == "region"
zoneLabel == "topology.kubernetes.io/zone"
\* score of a node whose region is unknown
SentinelScore == 1000

Dims == {"cpu", "memory"}
NoNode == ""
\* a Go map without entries
EmptyMap == [k \in {} |-> 0]
\* m[k] of a Go map of quantities: the zero quantity when k is absent
Quantity(m, k) == IF k \in DOMAIN m THEN m[k] ELSE 0
\* m[k] of a Go map of strings: "" when k is absent
Label(m, k) == IF k \in DOMAIN m THEN m[k] ELSE ""

(***************************************************************************)
(* The cluster: nodes in the order Nodes().List returns them, and the pods *)
(***************************************************************************)
NodeList == <<"h1", "h2", "h3">>
NodeNames == {NodeList[i] : i \in 1..Len(NodeList)}

Allocatable ==
    "h1" :> ("cpu" :> 2 @@ "memory" :> 2) @@
    "h2" :> ("cpu" :> 2 @@ "memory" :> 2) @@
    "h3" :> ("cpu" :> 2)

Labels ==
    "h1" :> (regionLabel :> "A" @@ defaultRegionLabel :> "B") @@
    "h2" :> (regionLabel :> "" @@ defaultRegionLabel :> "B" @@ zoneLabel :> "A") @@
    "h3" :> EmptyMap

\* spec.schedulerName and the Requests map of each container
PodSpec ==
    "p1" :> [schedulerName |-> schedulerName,
             containers |-> <<("cpu" :> 1 @@ "memory" :> 1), ("cpu" :> 1)>>] @@
    "p2" :> [schedulerName |-> schedulerName,
             containers |-> <<EmptyMap>>] @@
    "p3" :> [schedulerName |-> schedulerName,
             containers |-> <<("cpu" :> 3 @@ "memory" :> 1)>>] @@
    "pf" :> [schedulerName |-> "default-scheduler",
             containers |-> <<("cpu" :> 1 @@ "memory" :> 1)>>]

PodNames == DOMAIN PodSpec
\* the order in which Pods("").List returns the pods
PodList == <<"p1", "p2", "p3", "pf">>

\* taints the nodes carry from the start; h3 is tainted without refusing pods
InitialTaints ==
    "h1" :> {} @@ "h2" :> {} @@ "h3" :> {"PreferNoSchedule"}

(***************************************************************************)
(* Carbon cache file                                                       *)
(***************************************************************************)
\* a region record as found in the file
Rec(ci) == ("carbonIntensity" :> ci)
RecMoer(m) == ("carbonIntensity" :> 0 @@ "moer" :> m)

\* the "regions" value of the file: flat, or in the historical layout with
\* the mapping one level down under a second "regions" key
RegionMaps == {
    ("A" :> Rec(300) @@ "B" :> Rec(400)),
    ("regions" :> ("A" :> Rec(400) @@ "B" :> Rec(300))),
    ("A" :> RecMoer(500) @@ "B" :> Rec(500)),
    ("A" :> Rec(1200) @@ "B" :> Rec(0)),
    ("C" :> Rec(100)) }

\* how the timestamp field is written: RFC3339 ("2024-01-01T12:00:00Z"),
\* without zone ("2024-01-01T12:00:00", as in carbon-api/README.md and
\* test-all.sh), or the empty string
TimestampFormats == {"rfc3339", "nozone", "empty"}

Missing == [kind |-> "missing"]
Malformed == [kind |-> "malformed"]

NoDec == [pod |-> "", outcome |-> "none", target |-> NoNode, avail |-> <<>>,
          loaded |-> FALSE, binds |-> 0]

(***************************************************************************)
(* Resource accounting                                                     *)
(***************************************************************************)
RECURSIVE SumContainers(_, _, _)
SumContainers(containers, d, i) ==
    IF i > Len(containers) THEN 0
    ELSE Quantity(containers[i], d) + SumContainers(containers, d, i + 1)

getPodResourceRequests(p) ==
    [d \in Dims |-> SumContainers(PodSpec[p].containers, d, 1)]

RECURSIVE SumPods(_, _, _)
SumPods(nodeName, d, i) ==
    IF i > Len(PodList) THEN 0
    ELSE LET q == PodList[i] IN
         (IF pods[q].node = nodeName /\ ~pods[q].deleting
          THEN SumContainers(PodSpec[q].containers, d, 1) ELSE 0)
         + SumPods(nodeName, d, i + 1)

getNodeAllocatedResources(nodeName) ==
    [d \in Dims |-> SumPods(nodeName, d, 1)]

\* variant: the request is compared with the allocatable amount, not with
\* what the pods on the node leave of it
nodeHasResources_IgnoreAllocated(n, p) ==
    LET req == getPodResourceRequests(p) IN
    IF req["cpu"] = 0 /\ req["memory"] = 0 THEN TRUE
    ELSE /\ "cpu" \in DOMAIN Allocatable[n]
         /\ "memory" \in DOMAIN Allocatable[n]
         /\ Allocatable[n]["cpu"] >= req["cpu"]
         /\ Allocatable[n]["memory"] >= req["memory"]

\* variant: only the memory comparison decides
nodeHasResources_MemoryOnly(n, p) ==
    LET req == getPodResourceRequests(p) IN
    IF req["cpu"] = 0 /\ req["memory"] = 0 THEN TRUE
    ELSE /\ "memory" \in DOMAIN Allocatable[n]
         /\ Allocatable[n]["memory"] - getNodeAllocatedResources(n)["memory"] >= req["memory"]

\* variant: no shortcut for a pod without requests, and the node must have
\* something left in both dimensions
nodeHasResources_NeedsFreeRoom(n, p) ==
    LET req == getPodResourceRequests(p) IN
    /\ "cpu" \in DOMAIN Allocatable[n]
    /\ "memory" \in DOMAIN Allocatable[n]
    /\ Allocatable[n]["cpu"] - getNodeAllocatedResources(n)["cpu"] >= req["cpu"]
    /\ Allocatable[n]["memory"] - getNodeAllocatedResources(n)["memory"] >= req["memory"]
    /\ Allocatable[n]["cpu"] - getNodeAllocatedResources(n)["cpu"] > 0
    /\ Allocatable[n]["memory"] - getNodeAllocatedResources(n)["memory"] > 0

nodeHasResources(n, p) ==
    LET req == getPodResourceRequests(p) IN
    IF req["cpu"] = 0 /\ req["memory"] = 0 THEN TRUE
    ELSE IF "cpu" \notin DOMAIN Allocatable[n] THEN FALSE
    ELSE IF "memory" \notin DOMAIN Allocatable[n] THEN FALSE
    ELSE LET allocated == getNodeAllocatedResources(n)
             availableCPU == Allocatable[n]["cpu"] - allocated["cpu"]
             availableMemory == Allocatable[n]["memory"] - allocated["memory"]
             hasCPU == availableCPU >= req["cpu"]
             hasMemory == availableMemory >= req["memory"]
         IN  hasCPU /\ hasMemory

(***************************************************************************)
(* Reading the carbon cache                                                *)
(***************************************************************************)
\* json.Unmarshal into the Region struct: absent numbers become 0
Region(r) ==
    [CarbonIntensity |-> Quantity(r, "carbonIntensity"), MOER |-> Quantity(r, "moer")]

\* the result is [err, Regions]; Regions is meaningful only when ~err
readCarbonCache ==
    IF file.kind = "missing" THEN [err |-> TRUE, Regions |-> EmptyMap]
    ELSE IF file.kind = "malformed" THEN [err |-> TRUE, Regions |-> EmptyMap]
    ELSE LET regionsRaw == file.regions
             flat == IF "regions" \in DOMAIN regionsRaw
                     THEN regionsRaw["regions"] ELSE regionsRaw
             cache == [Regions |-> [z \in DOMAIN flat |-> Region(flat[z])],
                       TTLMinutes |-> file.ttl_minutes]
             \* time.Parse(time.RFC3339, ...) succeeds only on a zoned stamp
             parsed == file.timestamp.format = "rfc3339"
             \* time.Since(timestamp)
             age == file.timestamp.age
         IN  IF file.timestamp.format # "empty" /\ parsed /\ age > cache.TTLMinutes
             THEN [err |-> TRUE, Regions |-> EmptyMap]
             ELSE [err |-> FALSE, Regions |-> cache.Regions]

\* "Handle nested regions structure": when the value of "regions" is an
\* object that has an object under "regions" itself, that inner object takes
\* its place; what else the outer object held goes with it
flatten(rawData) ==
    IF "regions" \in DOMAIN rawData /\ "regions" \in DOMAIN rawData["regions"]
    THEN [rawData EXCEPT !["regions"] = rawData["regions"]["regions"]]
    ELSE rawData

\* the flattening followed by json.Unmarshal into the CarbonCache struct:
\* a key the document lacks at its top level leaves the field at its zero
flattenAndUnmarshal(rawData) ==
    LET flat == flatten(rawData)
        at(k, zero) == IF k \in DOMAIN flat THEN flat[k] ELSE zero
    IN [Timestamp |-> flat["timestamp"],
        TTLMinutes |-> flat["ttl_minutes"],
        Regions |-> [z \in DOMAIN flat["regions"] |-> Region(flat["regions"][z])],
        SortedByCarbon |-> at("sorted_by_carbon", <<>>),
        BestRegion |-> at("best_region", ""),
        WorstRegion |-> at("worst_region", "")]

\* node.Labels: the labels the node's object carries where a run gives the
\* nodes labels of its own, the fixed ones of the cluster otherwise
nodeLabels(n) ==
    IF "labels" \in DOMAIN nodes[n] THEN nodes[n].labels ELSE Labels[n]

\* variant: the zone label is not consulted
getNodeRegion_NoZone(n) ==
    IF Label(nodeLabels(n), regionLabel) # "" THEN Label(nodeLabels(n), regionLabel)
    ELSE Label(nodeLabels(n), defaultRegionLabel)

getNodeRegion(n) ==
    IF Label(nodeLabels(n), regionLabel) # "" THEN Label(nodeLabels(n), regionLabel)
    ELSE IF Label(nodeLabels(n), defaultRegionLabel) # "" THEN Label(nodeLabels(n), defaultRegionLabel)
    ELSE IF Label(nodeLabels(n), zoneLabel) # "" THEN Label(nodeLabels(n), zoneLabel)
    ELSE ""

(***************************************************************************)
(* Filter, score, select                                                   *)
(***************************************************************************)
isReady(n) == nodes[n].ready

canSchedule(n) == "NoSchedule" \notin nodes[n].taints

availableNodes(p) ==
    SelectSeq(NodeList, LAMBDA n : isReady(n) /\ canSchedule(n) /\ nodeHasResources(n, p))

nodeScore(n, Regions) ==
    LET region == getNodeRegion(n) IN
    IF region # "" /\ region \in DOMAIN Regions
    THEN IF Regions[region].CarbonIntensity > 0 THEN Regions[region].CarbonIntensity
         ELSE IF Regions[region].MOER > 0 THEN Regions[region].MOER
         ELSE SentinelScore
    ELSE SentinelScore

RECURSIVE bestNode_Inverted(_, _, _, _)
RECURSIVE bestNode_LastWins(_, _, _, _)
RECURSIVE bestNode(_, _, _, _)
\* variant: ">" in place of "<", so the highest score wins
bestNode_Inverted(avail, Regions, i, best) ==
    IF i > Len(avail) THEN best
    ELSE bestNode_Inverted(avail, Regions, i + 1,
                  IF nodeScore(avail[i], Regions) > nodeScore(best, Regions)
                  THEN avail[i] ELSE best)

\* variant: "<=" in place of "<", so the last node of minimum score wins
bestNode_LastWins(avail, Regions, i, best) ==
    IF i > Len(avail) THEN best
    ELSE bestNode_LastWins(avail, Regions, i + 1,
                  IF nodeScore(avail[i], Regions) <= nodeScore(best, Regions)
                  THEN avail[i] ELSE best)

\* the loop "if s.score < bestNode.score { bestNode = s }" from index i on
bestNode(avail, Regions, i, best) ==
    IF i > Len(avail) THEN best
    ELSE bestNode(avail, Regions, i + 1,
                  IF nodeScore(avail[i], Regions) < nodeScore(best, Regions)
                  THEN avail[i] ELSE best)

\* variant: the cache is consulted whatever CARBON_AWARE_MODE says
findBestNodeForPod_AlwaysScore(p) ==
    LET avail == availableNodes(p)
        cache == readCarbonCache
    IN  IF Len(avail) = 0 THEN [node |-> NoNode, avail |-> avail, loaded |-> FALSE]
        ELSE IF cache.err THEN [node |-> avail[1], avail |-> avail, loaded |-> FALSE]
        ELSE [node |-> bestNode(avail, cache.Regions, 1, avail[1]),
              avail |-> avail, loaded |-> FALSE]

\* the result is [node, avail, loaded]: the chosen node name ("" for none),
\* the filtered list, and whether the scores of the cache decided
findBestNodeForPod(p) ==
    LET avail == availableNodes(p)
        cache == readCarbonCache
    IN  IF Len(NodeList) = 0 THEN [node |-> NoNode, avail |-> <<>>, loaded |-> FALSE]
        ELSE IF Len(avail) = 0 THEN [node |-> NoNode, avail |-> avail, loaded |-> FALSE]
        ELSE IF ~carbonAwareMode THEN [node |-> avail[1], avail |-> avail, loaded |-> FALSE]
        ELSE IF cache.err THEN [node |-> avail[1], avail |-> avail, loaded |-> FALSE]
        ELSE [node |-> bestNode(avail, cache.Regions, 1, avail[1]),
              avail |-> avail, loaded |-> TRUE]

(***************************************************************************)
(* Binding and the notification handler                                    *)
(***************************************************************************)
\* the object store after the platform has accepted the Binding
schedulePodToNode(p, nodeName) ==
    [pods EXCEPT ![p] = [node |-> nodeName, by |-> "engine", deleting |-> FALSE,
                       phase |-> "Running"]]

Decision(p, r, outcome, binds) ==
    [pod |-> p, outcome |-> outcome, target |-> r.node, avail |-> r.avail,
     loaded |-> r.loaded, binds |-> binds]

\* variant: every unscheduled pod is handled
ownsPod_Any(p) == TRUE

\* "Only handle pods requesting our scheduler"
ownsPod(p) == PodSpec[p].schedulerName = schedulerName

\* variant: the process gives up when the platform rejects a bind
onBindError_Exit(p, r) ==
    /\ store' = store \cup {p}
    /\ dec' = Decision(p, r, "errored", 1)
    /\ pods' = pods
    /\ running' = FALSE

\* the bind was rejected: the failure is printed and the handler returns
onBindError(p, r) ==
    /\ store' = store \cup {p}
    /\ dec' = Decision(p, r, "errored", 1)
    /\ pods' = pods
    /\ running' = running

\* The informer delivers an unscheduled pod it does not hold yet; a pod that
\* gets bound leaves the watch (spec.nodeName = "") and with it the store.
AddFunc(p) ==
    /\ running
    /\ pods[p].node = NoNode
    /\ p \notin store
    /\ IF ~ownsPod(p)
       THEN /\ store' = store \cup {p}
            /\ dec' = NoDec
            /\ pods' = pods
            /\ running' = running
       ELSE LET r == findBestNodeForPod(p) IN
            IF r.node # NoNode
            THEN \E bindErr \in BOOLEAN :
                   IF bindErr
                   THEN onBindError(p, r)
                   ELSE /\ store' = store
                        /\ dec' = Decision(p, r, "bound", 1)
                        /\ pods' = schedulePodToNode(p, r.node)
                        /\ running' = running
            ELSE /\ store' = store \cup {p}
                 /\ dec' = Decision(p, r, "skipped", 0)
                 /\ pods' = pods
                 /\ running' = running
    /\ UNCHANGED <<nodes, file, carbonAwareMode>>
    /\ UNCHANGED <<cacheVars, volumeVars, handler, simVars>>

(***************************************************************************)
(* The platform around the engine                                          *)
(***************************************************************************)
\* number of conditions that take nodes out of service: NotReady counts one,
\* a NoSchedule taint one
RECURSIVE Conditions(_, _)
Conditions(ns, i) ==
    IF i > Len(NodeList) THEN 0
    ELSE (IF ns[NodeList[i]].ready THEN 0 ELSE 1)
         + (IF "NoSchedule" \in ns[NodeList[i]].taints THEN 1 ELSE 0)
         + Conditions(ns, i + 1)

\* the kubelet reports a node Ready or NotReady
NodeReadyChange(n) ==
    /\ nodes' = [nodes EXCEPT ![n].ready = ~nodes[n].ready]
    /\ Conditions(nodes', 1) <= MaxUnavailable
    /\ dec' = NoDec
    /\ UNCHANGED <<pods, store, file, running, carbonAwareMode>>
    /\ UNCHANGED <<cacheVars, volumeVars, handler, simVars>>

\* the nodes an operator cordons
Cordonable == {"h2"}

\* an operator puts a NoSchedule taint on a node or takes it off
NodeTaintChange(n) ==
    /\ nodes' = [nodes EXCEPT ![n].taints =
                    IF "NoSchedule" \in @ THEN @ \ {"NoSchedule"} ELSE @ \cup {"NoSchedule"}]
    /\ Conditions(nodes', 1) <= MaxUnavailable
    /\ dec' = NoDec
    /\ UNCHANGED <<pods, store, file, running, carbonAwareMode>>
    /\ UNCHANGED <<cacheVars, volumeVars, handler, simVars>>

\* free quantity of a node as the platform's own scheduler computes it
PlatformFree(n, d) ==
    Quantity(Allocatable[n], d) - SumPods(n, d, 1)

\* a pod of another scheduler is placed by that scheduler
OtherSchedulerBind(p, n) ==
    /\ PodSpec[p].schedulerName # schedulerName
    /\ pods[p].node = NoNode
    /\ nodes[n].ready
    /\ \A d \in Dims : PlatformFree(n, d) >= SumContainers(PodSpec[p].containers, d, 1)
    /\ pods' = [pods EXCEPT ![p] = [node |-> n, by |-> "other", deleting |-> FALSE, phase |-> "Running"]]
    /\ store' = store \ {p}
    /\ dec' = NoDec
    /\ UNCHANGED <<nodes, file, running, carbonAwareMode>>
    /\ UNCHANGED <<cacheVars, volumeVars, handler, simVars>>

\* a placed pod is deleted; its owner creates an unscheduled successor
PodReplaced(p) ==
    /\ pods[p].node # NoNode
    /\ pods' = [pods EXCEPT ![p] = [node |-> NoNode, by |-> "", deleting |-> FALSE, phase |-> "Pending"]]
    /\ dec' = NoDec
    /\ UNCHANGED <<nodes, store, file, running, carbonAwareMode>>
    /\ UNCHANGED <<cacheVars, volumeVars, handler, simVars>>

\* a placed pod is asked to stop: it gets its DeletionTimestamp and stays on
\* the node for its grace period
PodDeletionRequested(p) ==
    /\ pods[p].node # NoNode
    /\ ~pods[p].deleting
    /\ pods' = [pods EXCEPT ![p].deleting = TRUE]
    /\ dec' = NoDec
    /\ UNCHANGED <<nodes, store, file, running, carbonAwareMode>>
    /\ UNCHANGED <<cacheVars, volumeVars, handler, simVars>>

\* the containers of a placed pod have run to their end: the pod object
\* stays, with its spec.nodeName, in phase Succeeded
PodFinished(p) ==
    /\ pods[p].node # NoNode
    /\ pods[p].phase = "Running"
    /\ pods' = [pods EXCEPT ![p].phase = "Succeeded"]
    /\ dec' = NoDec
    /\ UNCHANGED <<nodes, store, file, running, carbonAwareMode>>
    /\ UNCHANGED <<cacheVars, volumeVars, handler, simVars>>

\* the poller replaces the cache file
WriteCache(regions, format) ==
    /\ file' = [kind |-> "json",
                timestamp |-> [format |-> format, age |-> 0],
                ttl_minutes |-> TTL,
                regions |-> regions]
    /\ file' # file
    /\ dec' = NoDec
    /\ UNCHANGED <<nodes, pods, store, running, carbonAwareMode>>
    /\ UNCHANGED <<cacheVars, volumeVars, handler, simVars>>

\* the file holds something that is not JSON
WriteGarbage ==
    /\ file # Malformed
    /\ file' = Malformed
    /\ dec' = NoDec
    /\ UNCHANGED <<nodes, pods, store, running, carbonAwareMode>>
    /\ UNCHANGED <<cacheVars, volumeVars, handler, simVars>>

\* a minute passes
Tick ==
    /\ file.kind = "json"
    /\ file.timestamp.format # "empty"
    /\ file.timestamp.age < MaxAge
    /\ file' = [file EXCEPT !.timestamp.age = @ + 1]
    /\ dec' = NoDec
    /\ UNCHANGED <<nodes, pods, store, running, carbonAwareMode>>
    /\ UNCHANGED <<cacheVars, volumeVars, handler, simVars>>

(***************************************************************************)
(* The in-memory carbon cache of the dispatcher (CarbonRegionCache).  Its  *)
(* methods are async: a call runs up to its next await, where the calls of *)
(* other request handlers may run; after the answer for the last zone the  *)
(* rest of repoll runs without interruption.                               *)
(***************************************************************************)
\* JavaScript null where a string is expected and where an object is
\* expected, and what reading an absent property gives
Null == "null"
NullObject == [null |-> TRUE]
Undefined == "undefined"

\* this.ttlMinutes
ttlMinutes == TTL
\* this.zones
zones == <<"US-CAL-CISO", "US-TEX-ERCO", "US-NY-NYIS">>
ZoneNames == {zones[i] : i \in 1..Len(zones)}

\* the request handlers of the dispatcher that use the cache
Callers == {"c1", "c2"}

\* intensities the emissions service reports
Intensities == {0, 4}

\* what one request to the emissions service comes to: a non-2xx response,
\* a transport error or a body that is not JSON (both throw), or a 2xx
\* response whose JSON body has a carbonIntensity or lacks it
Responses ==
    {[status |-> "notOk", body |-> EmptyMap],
     [status |-> "throws", body |-> EmptyMap],
     [status |-> "ok", body |-> EmptyMap]}
    \cup {[status |-> "ok", body |-> ("carbonIntensity" :> v)] : v \in Intensities}

Idle == [pc |-> "idle", i |-> 0, regions |-> EmptyMap, now |-> 0, fetched |-> {}]
NoPoll == [caller |-> "", result |-> "none", fetched |-> {}]

\* "this.regionIntensity && this.expiry > new Date()"
isValid == regionIntensity # NullObject /\ expiry > 0

\* o.k of a JavaScript object
Prop(o, k) == IF k \in DOMAIN o THEN o[k] ELSE Undefined

getBestRegion ==
    IF regionIntensity = NullObject THEN Null
    ELSE IF Prop(regionIntensity.regions, "best_region") = Undefined THEN Null
    ELSE regionIntensity.regions.best_region

getAllRegions ==
    IF regionIntensity = NullObject THEN EmptyMap ELSE regionIntensity.regions.regions

getRegionData(zone) ==
    IF zone \in DOMAIN getAllRegions THEN getAllRegions[zone] ELSE NullObject

\* Object.entries(regions): the keys in insertion order, which is the order
\* of this.zones
RECURSIVE entries(_, _)
entries(regions, i) ==
    IF i > Len(zones) THEN <<>>
    ELSE (IF zones[i] \in DOMAIN regions THEN <<zones[i]>> ELSE <<>>)
         \o entries(regions, i + 1)

\* one step of the stable sort: zone goes behind every entry whose
\* carbonIntensity is not greater
insert(sorted, zone, regions) ==
    LET notGreater == {j \in 1..Len(sorted) :
                         regions[sorted[j]].carbonIntensity <= regions[zone].carbonIntensity}
        k == Cardinality(notGreater)
    IN  SubSeq(sorted, 1, k) \o <<zone>> \o SubSeq(sorted, k + 1, Len(sorted))

\* Object.entries(regions).sort(by carbonIntensity).map(zone)
RECURSIVE sortZones(_, _, _)
sortZones(regions, es, i) ==
    IF i = 0 THEN <<>>
    ELSE insert(sortZones(regions, es, i - 1), es[i], regions)

\* the object repoll assigns to this.regionIntensity; now is the number of
\* minutes since "const now = new Date()"
snapshot(regions, now) ==
    LET sortedZones == sortZones(regions, entries(regions, 1), Len(entries(regions, 1)))
        best_region == IF Len(sortedZones) > 0 THEN sortedZones[1] ELSE Null
    IN  [timestamp |-> now, ttl_minutes |-> ttlMinutes,
         regions |-> [regions |-> regions, sorted_by_carbon |-> sortedZones,
                      best_region |-> best_region]]

\* repoll up to its first await
repollBegin(c) ==
    IF ~apiKey
    THEN /\ pollLog' = [caller |-> c, result |-> "threw", fetched |-> {}]
         /\ UNCHANGED <<regionIntensity, expiry, apiKey, callers>>
    ELSE /\ callers' = [callers EXCEPT ![c] =
                          [pc |-> "fetch", i |-> 1, regions |-> EmptyMap, now |-> 0,
                           fetched |-> {}]]
         /\ pollLog' = NoPoll
         /\ UNCHANGED <<regionIntensity, expiry, apiKey>>

\* POST /carbon-intensity/refresh
repoll(c) ==
    /\ callers[c].pc = "idle"
    /\ repollBegin(c)
    /\ UNCHANGED <<engineVars, volumeVars, handler, simVars>>

ensureFresh(c) ==
    /\ callers[c].pc = "idle"
    /\ IF ~isValid
       THEN repollBegin(c)
       ELSE /\ pollLog' = [caller |-> c, result |-> "fresh", fetched |-> {}]
            /\ UNCHANGED <<regionIntensity, expiry, apiKey, callers>>
    /\ UNCHANGED <<engineVars, volumeVars, handler, simVars>>

\* the answer for zone number i arrives; after the last zone the snapshot is
\* built and stored
fetched(c, res) ==
    /\ callers[c].pc = "fetch"
    /\ LET me == callers[c]
           zone == zones[me.i]
           stored == res.status = "ok" /\ "carbonIntensity" \in DOMAIN res.body
           regions == IF stored
                      THEN (zone :> [zone |-> zone, carbonIntensity |-> res.body["carbonIntensity"]])
                           @@ me.regions
                      ELSE me.regions
           got == IF stored THEN me.fetched \cup {zone} ELSE me.fetched
       IN  IF me.i < Len(zones)
           THEN /\ callers' = [callers EXCEPT ![c] =
                                 [me EXCEPT !.i = @ + 1, !.regions = regions, !.fetched = got]]
                /\ pollLog' = NoPoll
                /\ UNCHANGED <<regionIntensity, expiry, apiKey>>
           ELSE /\ regionIntensity' = snapshot(regions, me.now)
                /\ expiry' = ttlMinutes - me.now
                /\ callers' = [callers EXCEPT ![c] = Idle]
                /\ pollLog' = [caller |-> c, result |-> "returned", fetched |-> got]
                /\ UNCHANGED apiKey
    /\ UNCHANGED <<engineVars, volumeVars, handler, simVars>>

\* a minute passes for the dispatcher
CacheTick ==
    /\ \/ expiry > 0
       \/ \E c \in Callers : callers[c].pc = "fetch" /\ callers[c].now < ttlMinutes
    /\ expiry' = IF expiry > 0 THEN expiry - 1 ELSE 0
    /\ regionIntensity' =
          IF regionIntensity # NullObject /\ regionIntensity.timestamp < ttlMinutes
          THEN [regionIntensity EXCEPT !.timestamp = @ + 1] ELSE regionIntensity
    /\ callers' = [c \in Callers |->
                     IF callers[c].pc = "fetch" /\ callers[c].now < ttlMinutes
                     THEN [callers[c] EXCEPT !.now = @ + 1] ELSE callers[c]]
    /\ pollLog' = NoPoll
    /\ UNCHANGED apiKey
    /\ UNCHANGED <<engineVars, volumeVars, handler, simVars>>

(***************************************************************************)
(* The cache file on the shared volume, block by block.  The poller builds *)
(* each snapshot in a temporary file and renames it onto the cache path;   *)
(* the scheduler opens the cache path once and reads the opened file to    *)
(* its end.                                                                *)
(***************************************************************************)
NoFile == 0
\* number of blocks a snapshot takes on the volume
Blocks == 2
\* the blocks of snapshot number v
Content(v) == [k \in 1..Blocks |-> v]

NotReading == [pc |-> "idle", fd |-> NoFile, data |-> <<>>, err |-> FALSE, installed |-> NoFile]

\* poller: open the temporary file for the next snapshot
WriterCreate ==
    /\ writer.pc = "idle"
    /\ writer.v < MaxWrites
    /\ writer' = [pc |-> "writing", v |-> writer.v + 1]
    /\ inodes' = [inodes EXCEPT ![writer.v + 1] = <<>>]
    /\ dir' = [dir EXCEPT !["tmp"] = writer.v + 1]
    /\ UNCHANGED reader
    /\ UNCHANGED <<engineVars, cacheVars, handler, simVars>>

\* poller: write the next block of the snapshot to the temporary file
WriterWrite ==
    /\ writer.pc = "writing"
    /\ Len(inodes[writer.v]) < Blocks
    /\ inodes' = [inodes EXCEPT ![writer.v] = Append(@, Content(writer.v)[Len(@) + 1])]
    /\ UNCHANGED <<dir, writer, reader>>
    /\ UNCHANGED <<engineVars, cacheVars, handler, simVars>>

\* poller: rename the finished temporary file onto the cache path
WriterRename ==
    /\ writer.pc = "writing"
    /\ Len(inodes[writer.v]) = Blocks
    /\ dir' = [dir EXCEPT !["cache"] = dir["tmp"], !["tmp"] = NoFile]
    /\ writer' = [writer EXCEPT !.pc = "idle"]
    /\ UNCHANGED <<inodes, reader>>
    /\ UNCHANGED <<engineVars, cacheVars, handler, simVars>>

\* variant: every block is read from whatever file the path names just then
readBlock_ByPath(fd, k) ==
    IF dir["cache"] # NoFile /\ k <= Len(inodes[dir["cache"]])
    THEN <<inodes[dir["cache"]][k]>> ELSE <<>>

\* block k of the opened file, nothing at its end
readBlock(fd, k) ==
    IF k <= Len(inodes[fd]) THEN <<inodes[fd][k]>> ELSE <<>>

\* os.ReadFile: open the cache path; a missing file is an error
ReadOpen ==
    /\ reader.pc \in {"idle", "done"}
    /\ reader' = IF dir["cache"] = NoFile
                 THEN [NotReading EXCEPT !.pc = "done", !.err = TRUE]
                 ELSE [NotReading EXCEPT !.pc = "reading", !.fd = dir["cache"]]
    /\ UNCHANGED <<inodes, dir, writer>>
    /\ UNCHANGED <<engineVars, cacheVars, handler, simVars>>

\* os.ReadFile: read the next block; at the end of the file the data go to
\* json.Unmarshal
ReadNext ==
    /\ reader.pc = "reading"
    /\ LET got == readBlock(reader.fd, Len(reader.data) + 1) IN
       reader' = IF got = <<>>
                 THEN [reader EXCEPT !.pc = "done", !.installed = dir["cache"]]
                 ELSE [reader EXCEPT !.data = @ \o got]
    /\ UNCHANGED <<inodes, dir, writer>>
    /\ UNCHANGED <<engineVars, cacheVars, handler, simVars>>

\* the volume before the poller's first write, nothing being read
InitVolume ==
    /\ inodes = [v \in 1..MaxWrites |-> <<>>]
    /\ dir = [path \in {"cache", "tmp"} |-> NoFile]
    /\ writer = [pc |-> "idle", v |-> 0]
    /\ reader = NotReading

(***************************************************************************)
(* AddFunc call by call: the List calls of the filter, the scoring, the    *)
(* Bind call.  Between two calls the platform goes on; the informer's      *)
(* controller invokes its handler from one goroutine and waits for it to   *)
(* return before it takes the next notification.                           *)
(***************************************************************************)
NotHandling == [pc |-> "idle", avail |-> <<>>, node |-> NoNode, loaded |-> FALSE,
                view |-> <<>>]

\* variant: the handler body runs in a goroutine of its own per notification
handlerFree_Concurrent == TRUE

\* the controller's goroutine is not inside a handler call
handlerFree == \A q \in PodNames : handler[q].pc = "idle"

\* variant: the first node of the list is taken, filtered or not
selectNode_FirstListed(avail) == NodeList[1]

\* lines 360-436 of findBestNodeForPod, on a filtered list that is not empty
selectNode(avail) ==
    LET cache == readCarbonCache IN
    IF ~carbonAwareMode THEN avail[1]
    ELSE IF cache.err THEN avail[1]
    ELSE bestNode(avail, cache.Regions, 1, avail[1])

\* the notification of p is taken; a foreign pod is dropped, for an own pod
\* the nodes are listed and filtered against the pods the platform reports
Filter(p) ==
    /\ running
    /\ handlerFree
    /\ handler[p].pc = "idle"
    /\ pods[p].node = NoNode
    /\ p \notin store
    /\ IF ~ownsPod(p)
       THEN /\ store' = store \cup {p}
            /\ handler' = handler
       ELSE /\ store' = store
            /\ handler' = [handler EXCEPT ![p] =
                             [pc |-> "filtered", avail |-> availableNodes(p),
                              node |-> NoNode, loaded |-> FALSE, view |-> pods]]
    /\ dec' = NoDec
    /\ UNCHANGED <<nodes, pods, file, running, carbonAwareMode>>
    /\ UNCHANGED <<cacheVars, volumeVars, simVars>>

\* no node is left: the handler returns; otherwise the cache is read and the
\* node selected
Score(p) ==
    /\ handler[p].pc = "filtered"
    /\ IF Len(handler[p].avail) = 0
       THEN /\ handler' = [handler EXCEPT ![p] = NotHandling]
            /\ store' = store \cup {p}
            /\ dec' = [pod |-> p, outcome |-> "skipped", target |-> NoNode,
                       avail |-> <<>>, loaded |-> FALSE, binds |-> 0]
       ELSE /\ handler' = [handler EXCEPT ![p].pc = "scored",
                                          ![p].node = selectNode(handler[p].avail),
                                          ![p].loaded = carbonAwareMode /\ ~readCarbonCache.err]
            /\ store' = store
            /\ dec' = NoDec
    /\ UNCHANGED <<nodes, pods, file, running, carbonAwareMode>>
    /\ UNCHANGED <<cacheVars, volumeVars, simVars>>

\* the Bind call: the platform accepts it unless the pod has been placed in
\* the meantime, and may reject it for reasons of its own
Bind(p) ==
    /\ handler[p].pc = "scored"
    /\ \E bindErr \in BOOLEAN :
          IF bindErr \/ pods[p].node # NoNode
          THEN /\ pods' = pods
               /\ store' = IF pods[p].node = NoNode THEN store \cup {p} ELSE store
               /\ dec' = [pod |-> p, outcome |-> "errored", target |-> handler[p].node,
                          avail |-> handler[p].avail, loaded |-> handler[p].loaded,
                          binds |-> 1]
          ELSE /\ pods' = schedulePodToNode(p, handler[p].node)
               /\ store' = store
               /\ dec' = [pod |-> p, outcome |-> "bound", target |-> handler[p].node,
                          avail |-> handler[p].avail, loaded |-> handler[p].loaded,
                          binds |-> 1]
    /\ handler' = [handler EXCEPT ![p] = NotHandling]
    /\ UNCHANGED <<nodes, file, running, carbonAwareMode>>
    /\ UNCHANGED <<cacheVars, volumeVars, simVars>>

(***************************************************************************)
(* The simulator (enhanced_simulate.go).  One run of runSimulation is      *)
(* followed loop iteration by loop iteration.  Times are whole seconds     *)
(* counted from startTime; CPU is counted in cores and memory in GB, whole *)
(* numbers only.  The host list is the one main() builds, cut down to two  *)
(* of the added regions; job durations and the 48 hours the drain loop may *)
(* take are scaled down so that a run has a handful of ticks.              *)
(***************************************************************************)
\* length of the hour in seconds of the model, which scales the 48 hours
\* of the drain loop
Hour == 1

TotalCPU == 4
TotalMemory == 8
tickInterval == 10
Minute == 60
\* time.Time{}, the zero time a job's ScheduledAt has until it starts
ZeroTime == 0 - 1
NaN == "NaN"

Policies == {"CarbonAware", "RoundRobin", "Random", "LeastLoaded", "HighestCarbon"}
JobTypes == {"ComputeIntensive", "IOBound", "Mixed", "Batch"}

\* the regions of the snapshot file the run is started with
Snapshots == {EmptyMap, ("NO-NO1" :> 30)}
\* additionalRegions, two of its 24 entries
additionalRegions == ("NO-NO1" :> 25) @@ ("AU-VIC" :> 900)

nodeName(region) == region \o "-node-1"

RECURSIVE Perms(_)
\* the orders in which `range` may hand out the keys of a Go map
Perms(S) ==
    IF S = {} THEN {<<>>}
    ELSE UNION {{<<x>> \o p : p \in Perms(S \ {x})} : x \in S}

\* initializeNodes followed by addSimulationRegions: the regions of the
\* hosts in the order of the slice, one host per region.  Each loop ranges
\* over a map, so the order within each part is the runtime's choice.
HostOrders(snap) ==
    {first \o added : first \in Perms(DOMAIN snap),
                      added \in Perms(DOMAIN additionalRegions \ DOMAIN snap)}

\* node.CarbonIntensity of the host of a region
CarbonIntensity(snap, region) ==
    IF region \in DOMAIN snap THEN snap[region] ELSE additionalRegions[region]

\* a host as runSimulation resets it
FreshNode ==
    [AvailableCPU |-> TotalCPU, AvailableMemory |-> TotalMemory,
     Jobs |-> <<>>, RunningJobs |-> <<>>, Queue |-> <<>>, Utilization |-> 0]

\* config.Duration and config.JobArrivalRate (jobs per minute) of a run
Durations == {5, 30}
ArrivalRates == {2, 12}
\* config.ComputeJobRatio in tenths, the default 0.4
ComputeJobRatio == 4

\* What math/rand hands out for one job: randVal in tenths, the requests
\* and the duration as drawn, and the value of rand.Intn before it is
\* reduced to the number of available hosts.
Draws ==
    {[randVal |-> 0, cpu |-> 1, mem |-> 2, duration |-> 40, intn |-> 0],
     [randVal |-> 5, cpu |-> 4, mem |-> 2, duration |-> 20, intn |-> 1],
     [randVal |-> 7, cpu |-> 2, mem |-> 8, duration |-> 20, intn |-> 1],
     [randVal |-> 9, cpu |-> 5, mem |-> 1, duration |-> 20, intn |-> 0]}

\* no run creates more jobs than its duration has ticks
StreamLen ==
    LET longest == CHOOSE d \in Durations : \A e \in Durations : e <= d
    IN longest \div tickInterval

Max(a, b) == IF a >= b THEN a ELSE b
Min(a, b) == IF a <= b THEN a ELSE b

jobType(randVal) ==
    IF randVal < ComputeJobRatio THEN "ComputeIntensive"
    ELSE IF randVal < ComputeJobRatio + 2 THEN "IOBound"
    ELSE IF randVal < ComputeJobRatio + 5 THEN "Mixed"
    ELSE "Batch"

blockingTime(type, duration) ==
    CASE type = "ComputeIntensive" -> (duration * 8) \div 10
      [] type = "Batch" -> (duration * 7) \div 10
      [] type = "IOBound" -> (duration * 3) \div 10
      [] type = "Mixed" -> (duration * 5) \div 10

createJob(jobID, draw, currentTime) ==
    LET type == jobType(draw.randVal) IN
    [ID |-> jobID,
     Type |-> type,
     CPURequest |-> IF type = "ComputeIntensive" THEN Max(draw.cpu, 2) ELSE draw.cpu,
     MemoryRequest |-> draw.mem,
     Duration |-> draw.duration,
     BlockingTime |-> blockingTime(type, draw.duration),
     CreatedAt |-> currentTime,
     ScheduledAt |-> ZeroTime,
     StartedAt |-> ZeroTime,
     CompletedAt |-> ZeroTime,
     Node |-> "",
     Region |-> "",
     CarbonIntensity |-> 0,
     QueueTime |-> 0,
     Latency |-> 0,
     TurnaroundTime |-> 0,
     ExecutionTime |-> 0]

\* the fields a job gets when it starts on a host at `now`
started(job, now) ==
    [job EXCEPT !.ScheduledAt = now,
                !.StartedAt = now,
                !.QueueTime = now - job.CreatedAt,
                !.Latency = now - job.CreatedAt,
                !.CompletedAt = now + job.Duration,
                !.ExecutionTime = job.Duration,
                !.TurnaroundTime = (now + job.Duration) - job.CreatedAt]

\* the job takes a place on the host of `region`
placed(job, c, region) ==
    [job EXCEPT !.Node = nodeName(region),
                !.Region = region,
                !.CarbonIntensity = CarbonIntensity(c.snapshot, region)]

\* variant: only the CPU comparison decides
hasRoom_CPUOnly(node, job) == node.AvailableCPU >= job.CPURequest

hasRoom(node, job) ==
    node.AvailableCPU >= job.CPURequest /\ node.AvailableMemory >= job.MemoryRequest

RECURSIVE scanQueue(_, _, _, _, _)
\* the inner loop of processQueues over one host's queue, from entry i on,
\* with what the host has left: the jobs that start, in order, the jobs
\* that keep waiting, in order, and what is left after them
scanQueue(jobs, queue, i, cpu, mem) ==
    IF i > Len(queue) THEN [starting |-> <<>>, newQueue |-> <<>>, cpu |-> cpu, mem |-> mem]
    ELSE LET j == queue[i] IN
         IF cpu >= jobs[j].CPURequest /\ mem >= jobs[j].MemoryRequest
         THEN LET r == scanQueue(jobs, queue, i + 1,
                                 cpu - jobs[j].CPURequest, mem - jobs[j].MemoryRequest)
              IN [r EXCEPT !.starting = <<j>> \o @]
         ELSE LET r == scanQueue(jobs, queue, i + 1, cpu, mem)
              IN [r EXCEPT !.newQueue = <<j>> \o @]

\* variant: the queues are left as they are
processQueues_Skip(s) == s

\* jobs are held by pointer in the hosts' lists: here by their index in `jobs`
processQueues(s) ==
    LET scan(r) == scanQueue(s.jobs, s.nodes[r].Queue, 1,
                             s.nodes[r].AvailableCPU, s.nodes[r].AvailableMemory)
        starting == {j \in DOMAIN s.jobs :
                        \E r \in DOMAIN s.nodes :
                            \E k \in DOMAIN scan(r).starting : scan(r).starting[k] = j}
    IN [s EXCEPT
          !.jobs = [j \in DOMAIN s.jobs |->
                      IF j \in starting THEN started(s.jobs[j], s.currentTime)
                      ELSE s.jobs[j]],
          !.nodes = [r \in DOMAIN s.nodes |->
                      [s.nodes[r] EXCEPT
                          !.RunningJobs = @ \o scan(r).starting,
                          !.AvailableCPU = scan(r).cpu,
                          !.AvailableMemory = scan(r).mem,
                          !.Queue = scan(r).newQueue]]]

RECURSIVE SumRequests(_, _, _, _)
\* the sum of jobs[j][field] over the entries of a list of jobs
SumRequests(jobs, list, field, i) ==
    IF i > Len(list) THEN 0
    ELSE jobs[list[i]][field] + SumRequests(jobs, list, field, i + 1)

cleanupCompletedJobs(s) ==
    LET stillRunning(j) == s.jobs[j].CompletedAt > s.currentTime
        completed(j) == ~stillRunning(j)
        clean(node) ==
            LET done == SelectSeq(node.RunningJobs, completed)
                cpu == node.AvailableCPU + SumRequests(s.jobs, done, "CPURequest", 1)
            IN [node EXCEPT
                  !.RunningJobs = SelectSeq(node.RunningJobs, stillRunning),
                  !.AvailableCPU = cpu,
                  !.AvailableMemory = @ + SumRequests(s.jobs, done, "MemoryRequest", 1),
                  !.Utilization = ((TotalCPU - cpu) * 100) \div TotalCPU]
    IN [s EXCEPT !.nodes = [r \in DOMAIN s.nodes |-> clean(s.nodes[r])]]

\* sort.Slice(list, less) and then list[0].  With twelve hosts or fewer
\* sort.Slice is an insertion sort, which leaves hosts of equal key in the
\* order they had: the first host of the least key is returned.
leastFirst(list, key) ==
    list[CHOOSE i \in 1..Len(list) :
            \A k \in 1..Len(list) :
                /\ key[list[i]] <= key[list[k]]
                /\ k < i => key[list[k]] > key[list[i]]]

simSelectNode(available, schedulerType, s, c, intn) ==
    CASE schedulerType = "CarbonAware" ->
            leastFirst(available,
                       [r \in DOMAIN s.nodes |-> CarbonIntensity(c.snapshot, r)])
      [] schedulerType = "RoundRobin" ->
            leastFirst(available,
                       [r \in DOMAIN s.nodes |-> Len(s.nodes[r].Jobs)])
      [] schedulerType = "Random" ->
            available[(intn % Len(available)) + 1]
      [] schedulerType = "LeastLoaded" ->
            leastFirst(available,
                       [r \in DOMAIN s.nodes |->
                          ((TotalCPU - s.nodes[r].AvailableCPU) * 100) \div TotalCPU])
      [] schedulerType = "HighestCarbon" ->
            leastFirst(available,
                       [r \in DOMAIN s.nodes |-> 0 - CarbonIntensity(c.snapshot, r)])

\* the region of the host the job can start on now, or NoNode
scheduleJob(job, s, c, intn) ==
    LET fits(r) == hasRoom(s.nodes[r], job)
        available == SelectSeq(c.order, fits)
    IN IF Len(available) = 0 THEN NoNode
       ELSE simSelectNode(available, c.policy, s, c, intn)

\* in seconds
estimateWaitTime(node, job) ==
    LET baseWait == (10 * Minute * (TotalCPU - node.AvailableCPU)) \div TotalCPU
        queueWait == (20 * Minute * Len(node.Queue)) \div 2
    IN (IF job.Type = "ComputeIntensive" THEN baseWait * 2 ELSE baseWait) + queueWait

\* The score of selectBestNodeForQueue.  The code adds the wait in
\* nanoseconds, weighted, to a penalty; here the wait is in seconds and each
\* policy's sum is divided by a constant so that it stays a whole number:
\* by 10000 for the two carbon policies, by 2500 for least-loaded, by 1000
\* for round-robin.
queueScore(r, job, s, c) ==
    LET node == s.nodes[r]
        wait == estimateWaitTime(node, job)
    IN CASE c.policy = "CarbonAware" -> wait * 10000 + CarbonIntensity(c.snapshot, r)
         [] c.policy = "LeastLoaded" -> wait * 400000 + (TotalCPU - node.AvailableCPU)
         [] c.policy = "RoundRobin" -> wait * 1000000 + Len(node.Queue)
         [] c.policy = "HighestCarbon" -> wait * 10000 - CarbonIntensity(c.snapshot, r)
         [] OTHER -> wait

\* variant: a job that cannot start at once is given no host
selectBestNodeForQueue_GiveUp(job, s, c) == NoNode

\* the first host, in the order of the slice, of the least score
selectBestNodeForQueue(job, s, c) ==
    IF Len(c.order) = 0 THEN NoNode
    ELSE leastFirst(c.order, [r \in DOMAIN s.nodes |-> queueScore(r, job, s, c)])

interArrivalTime(c) == Minute \div c.JobArrivalRate
endTime(c) == c.Duration
maxProcessTime(c) == endTime(c) + 48 * Hour

\* the head of the inner loop of the arrival phase, and what follows it
\* when its condition fails
innerLoop(s, c) ==
    IF s.currentTime < s.nextArrivalTime /\ s.currentTime < endTime(c)
    THEN [s EXCEPT !.pc = "tick"]
    ELSE IF s.currentTime > endTime(c) THEN [s EXCEPT !.pc = "drain"]
    ELSE [s EXCEPT !.pc = "arrive"]

\* the head of the outer loop of the arrival phase
outerLoop(s, c) ==
    IF s.currentTime < endTime(c)
    THEN innerLoop([s EXCEPT !.nextArrivalTime = s.currentTime + interArrivalTime(c)], c)
    ELSE [s EXCEPT !.pc = "drain"]

\* the body of both tick loops
tick(s) ==
    [cleanupCompletedJobs(processQueues(s)) EXCEPT !.currentTime = @ + tickInterval]

\* the rest of the outer loop's body: one job is created and placed
arrive(s, c) ==
    LET draw == c.stream[s.jobID + 1]
        job == createJob(s.jobID, draw, s.currentTime)
        now == scheduleJob(job, s, c, draw.intn)
        later == selectBestNodeForQueue(job, s, c)
        j == Len(s.jobs) + 1
    IN IF now # NoNode
       THEN [s EXCEPT
               !.jobs = Append(@, placed(started(job, s.currentTime), c, now)),
               !.nodes[now].RunningJobs = Append(@, j),
               !.nodes[now].AvailableCPU = @ - job.CPURequest,
               !.nodes[now].AvailableMemory = @ - job.MemoryRequest,
               !.jobID = @ + 1]
       ELSE IF later # NoNode
       THEN [s EXCEPT
               !.jobs = Append(@, placed(job, c, later)),
               !.nodes[later].Queue = Append(@, j),
               !.jobID = @ + 1]
       ELSE [s EXCEPT !.jobs = Append(@, job), !.jobID = @ + 1]

\* variant: the drain loop stops as soon as the queues are empty
allQueuesEmptyAndJobsDone_QueuesOnly(s) ==
    \A r \in DOMAIN s.nodes : Len(s.nodes[r].Queue) = 0

\* allQueuesEmpty && allJobsDone
allQueuesEmptyAndJobsDone(s) ==
    \A r \in DOMAIN s.nodes :
        Len(s.nodes[r].Queue) = 0 /\ Len(s.nodes[r].RunningJobs) = 0

\* the drain loop goes round once more
draining(s, c) ==
    s.currentTime < maxProcessTime(c) /\ ~allQueuesEmptyAndJobsDone(s)

RECURSIVE SeqSum(_, _)
SeqSum(list, i) == IF i > Len(list) THEN 0 ELSE list[i] + SeqSum(list, i + 1)

RECURSIVE sortFloat64s(_, _)
\* the first n entries of the list in ascending order
sortFloat64s(list, n) ==
    IF n = 0 THEN <<>>
    ELSE LET sorted == sortFloat64s(list, n - 1)
             below == SelectSeq(sorted, LAMBDA x : x <= list[n])
             above == SelectSeq(sorted, LAMBDA x : x > list[n])
         IN below \o <<list[n]>> \o above

\* the 95th percentile as calculateMetrics takes it
p95(list) ==
    LET sorted == sortFloat64s(list, Len(list)) IN
    IF Len(list) >= 20 THEN sorted[(Len(list) * 95) \div 100 + 1]
    ELSE sorted[Len(list)]

\* the SimulationResults literal calculateMetrics starts from
newResults(jobs, c) ==
    [SchedulerType |-> c.policy,
     TotalJobs |-> Len(jobs),
     CompletedJobs |-> 0,
     FailedJobs |-> 0,
     AverageCarbon |-> 0,
     TotalCarbon |-> 0,
     AverageLatency |-> 0,
     AverageTurnaround |-> 0,
     P95Latency |-> 0,
     P95Turnaround |-> 0,
     AverageUtilization |-> 0,
     NodeUtilization |-> EmptyMap,
     RegionDistribution |-> EmptyMap,
     CarbonByRegion |-> EmptyMap,
     JobsByRegion |-> EmptyMap,
     Throughput |-> 0]

\* what calculateMetrics computes when there are jobs; the quotients are
\* taken in whole numbers, and 0/0 is NaN
metricsOf(jobs, s, c) ==
    LET scheduled(job) == job.ScheduledAt # ZeroTime
        done == SelectSeq(jobs, scheduled)
        regions == {done[i].Region : i \in DOMAIN done}
        inRegion(r) == SelectSeq(done, LAMBDA job : job.Region = r)
        count(r) == Len(inRegion(r))
        carbon(list) == SeqSum([i \in DOMAIN list |-> list[i].CarbonIntensity], 1)
        latencies == [i \in DOMAIN done |-> done[i].Latency]
        turnarounds == [i \in DOMAIN done |-> done[i].TurnaroundTime]
        totalJobCPU(r) ==
            SeqSum([i \in DOMAIN jobs |->
                      IF jobs[i].Node = nodeName(r) /\ scheduled(jobs[i])
                      THEN jobs[i].CPURequest ELSE 0], 1)
        avgUtilization(r) == Min(100, (totalJobCPU(r) * 100) \div TotalCPU)
        names == {nodeName(c.order[i]) : i \in DOMAIN c.order}
        regionOf(name) == CHOOSE r \in DOMAIN s.nodes : nodeName(r) = name
    IN [newResults(jobs, c) EXCEPT
          !.CompletedJobs = Len(done),
          !.FailedJobs = Len(jobs) - Len(done),
          !.TotalCarbon = carbon(done),
          !.AverageCarbon = IF Len(done) = 0 THEN NaN ELSE carbon(done) \div Len(done),
          !.AverageLatency = IF Len(done) = 0 THEN 0 ELSE SeqSum(latencies, 1) \div Len(done),
          !.P95Latency = IF Len(done) = 0 THEN 0 ELSE p95(latencies),
          !.AverageTurnaround = IF Len(done) = 0 THEN 0 ELSE SeqSum(turnarounds, 1) \div Len(done),
          !.P95Turnaround = IF Len(done) = 0 THEN 0 ELSE p95(turnarounds),
          !.RegionDistribution = [r \in regions |-> count(r)],
          !.JobsByRegion = [r \in regions |-> count(r)],
          !.CarbonByRegion = [r \in regions |-> carbon(inRegion(r))],
          !.NodeUtilization = [n \in names |-> avgUtilization(regionOf(n))],
          !.AverageUtilization =
              SeqSum([i \in DOMAIN c.order |-> avgUtilization(c.order[i])], 1)
                  \div Len(c.order),
          !.Throughput = (Len(done) * Hour) \div c.Duration]

\* variant: every region of the host list gets an entry in the per-region
\* maps before the jobs are counted
calculateMetrics_AllRegions(jobs, s, c) ==
    LET zero == [r \in DOMAIN s.nodes |-> 0] IN
    IF Len(jobs) = 0
    THEN [newResults(jobs, c) EXCEPT !.RegionDistribution = zero,
                                     !.JobsByRegion = zero,
                                     !.CarbonByRegion = zero]
    ELSE metricsOf(jobs, s, c)

calculateMetrics(jobs, s, c) ==
    IF Len(jobs) = 0 THEN newResults(jobs, c) ELSE metricsOf(jobs, s, c)

\* runSimulation up to the first loop head, the hosts reset
beginRun(c) ==
    outerLoop([pc |-> "start",
               currentTime |-> 0,
               nextArrivalTime |-> 0,
               jobID |-> 0,
               jobs |-> <<>>,
               nodes |-> [r \in {c.order[i] : i \in DOMAIN c.order} |-> FreshNode],
               results |-> newResults(<<>>, c)], c)

\* one step of runSimulation from where it stands
step(s, c) ==
    CASE s.pc = "tick" -> innerLoop(tick(s), c)
      [] s.pc = "arrive" -> outerLoop(arrive(s, c), c)
      [] s.pc = "drain" ->
            IF draining(s, c) THEN tick(s)
            ELSE [s EXCEPT !.pc = "done", !.results = calculateMetrics(s.jobs, s, c)]
      [] OTHER -> s

RECURSIVE runSimulation(_, _)
\* the run from s to its end
runSimulation(s, c) == IF s.pc = "done" THEN s ELSE runSimulation(step(s, c), c)

\* the policies in the order main runs them
schedulers == <<"CarbonAware", "RoundRobin", "Random", "LeastLoaded", "HighestCarbon">>
\* the place of the run's policy in that order
runIndex(c) == CHOOSE i \in 1..Len(schedulers) : schedulers[i] = c.policy

\* variant: the reset leaves the queues as the last run left them
resetNodes_KeepQueue(ns) ==
    [r \in DOMAIN ns |->
        [ns[r] EXCEPT !.AvailableCPU = TotalCPU, !.AvailableMemory = TotalMemory,
                      !.Jobs = <<>>, !.RunningJobs = <<>>, !.Utilization = 0]]

\* "Reset nodes": the hosts are the ones the last run used
resetNodes(ns) ==
    [r \in DOMAIN ns |->
        [ns[r] EXCEPT !.AvailableCPU = TotalCPU, !.AvailableMemory = TotalMemory,
                      !.Jobs = <<>>, !.RunningJobs = <<>>, !.Queue = <<>>,
                      !.Utilization = 0]]

\* runSimulation up to the first loop head when main calls it again; the
\* results of the run before stay in main's slice
startRun(s, c) ==
    outerLoop([pc |-> "start",
               currentTime |-> 0,
               nextArrivalTime |-> 0,
               jobID |-> 0,
               jobs |-> <<>>,
               nodes |-> resetNodes(s.nodes),
               results |-> s.results], c)

\* what the next run is given: the next policy, the same configuration and
\* host slice, and of math/rand what the runs before have not drawn
nextConfig(s, c) ==
    [c EXCEPT !.policy = schedulers[runIndex(c) + 1],
              !.stream = SubSeq(c.stream, s.jobID + 1, Len(c.stream))]

\* no simulation is running
NoConfig ==
    [snapshot |-> EmptyMap, order |-> <<>>, policy |-> "", Duration |-> 0,
     JobArrivalRate |-> 0, stream |-> <<>>]
NoRun ==
    [pc |-> "none", currentTime |-> 0, nextArrivalTime |-> 0, jobID |-> 0,
     jobs |-> <<>>, nodes |-> EmptyMap, results |-> newResults(<<>>, NoConfig)]
InitNoRun == cfg = NoConfig /\ sim = NoRun

\* the inner tick loop of the arrival phase goes round once
SimTick ==
    /\ sim.pc = "tick"
    /\ sim' = step(sim, cfg)
    /\ UNCHANGED <<engineVars, cacheVars, volumeVars, handler, cfg>>

\* a job arrives
Arrive ==
    /\ sim.pc = "arrive"
    /\ sim' = step(sim, cfg)
    /\ UNCHANGED <<engineVars, cacheVars, volumeVars, handler, cfg>>

\* the drain loop goes round once
DrainTick ==
    /\ sim.pc = "drain"
    /\ draining(sim, cfg)
    /\ sim' = step(sim, cfg)
    /\ UNCHANGED <<engineVars, cacheVars, volumeVars, handler, cfg>>

\* the drain loop is left and the metrics are calculated
Finish ==
    /\ sim.pc = "drain"
    /\ ~draining(sim, cfg)
    /\ sim' = step(sim, cfg)
    /\ UNCHANGED <<engineVars, cacheVars, volumeVars, handler, cfg>>

\* main goes on to the next policy
NextRun ==
    /\ sim.pc = "done"
    /\ runIndex(cfg) < Len(schedulers)
    /\ cfg' = nextConfig(sim, cfg)
    /\ sim' = startRun(sim, cfg')
    /\ UNCHANGED <<engineVars, cacheVars, volumeVars, handler>>

(***************************************************************************)
(* Specification                                                           *)
(***************************************************************************)
\* the cache as its constructor leaves it, no request in progress
InitCache ==
    /\ regionIntensity = NullObject
    /\ expiry = 0
    /\ callers = [c \in Callers |-> Idle]
    /\ pollLog = NoPoll

Init ==
    /\ nodes = [n \in NodeNames |-> [ready |-> TRUE, taints |-> InitialTaints[n]]]
    /\ pods = [p \in PodNames |-> [node |-> NoNode, by |-> "", deleting |-> FALSE, phase |-> "Pending"]]
    /\ store = {}
    /\ file = Missing
    /\ dec = NoDec
    /\ running = TRUE
    /\ carbonAwareMode \in BOOLEAN
    /\ InitCache
    /\ apiKey = TRUE
    /\ InitVolume
    /\ handler = [p \in PodNames |-> NotHandling]
    /\ InitNoRun

Next ==
    \/ \E p \in PodNames : AddFunc(p)
    \/ \E n \in NodeNames : NodeReadyChange(n)
    \/ \E n \in Cordonable : NodeTaintChange(n)
    \/ \E p \in PodNames, n \in NodeNames : OtherSchedulerBind(p, n)
    \/ \E p \in PodNames : PodReplaced(p)
    \/ \E regions \in RegionMaps, format \in TimestampFormats : WriteCache(regions, format)
    \/ WriteGarbage
    \/ Tick

Spec == Init /\ [][Next]_vars

\* The engine and the object store alone, the cache file left as it is; the
\* informer delivers every notification it has, so each AddFunc(p) is
\* weakly fair.
NextCluster ==
    \/ \E p \in PodNames : AddFunc(p)
    \/ \E n \in NodeNames : NodeReadyChange(n)
    \/ \E n \in Cordonable : NodeTaintChange(n)
    \/ \E p \in PodNames, n \in NodeNames : OtherSchedulerBind(p, n)
    \/ \E p \in PodNames : PodReplaced(p)

FairSpec ==
    Init /\ [][NextCluster]_vars /\ \A p \in PodNames : WF_vars(AddFunc(p))

\* The dispatcher's cache alone, with or without API key.
InitDispatcher ==
    /\ nodes = [n \in NodeNames |-> [ready |-> TRUE, taints |-> InitialTaints[n]]]
    /\ pods = [p \in PodNames |-> [node |-> NoNode, by |-> "", deleting |-> FALSE, phase |-> "Pending"]]
    /\ store = {}
    /\ file = Missing
    /\ dec = NoDec
    /\ running = TRUE
    /\ carbonAwareMode = TRUE
    /\ InitCache
    /\ apiKey \in BOOLEAN
    /\ InitVolume
    /\ handler = [p \in PodNames |-> NotHandling]
    /\ InitNoRun

NextDispatcher ==
    \/ \E c \in Callers : repoll(c)
    \/ \E c \in Callers : ensureFresh(c)
    \/ \E c \in Callers, res \in Responses : fetched(c, res)
    \/ CacheTick

CacheSpec == InitDispatcher /\ [][NextDispatcher]_vars

\* The poller and the scheduler's read on the shared volume.
NextVolume ==
    \/ WriterCreate
    \/ WriterWrite
    \/ WriterRename
    \/ ReadOpen
    \/ ReadNext

InitShared ==
    /\ nodes = [n \in NodeNames |-> [ready |-> TRUE, taints |-> InitialTaints[n]]]
    /\ pods = [p \in PodNames |-> [node |-> NoNode, by |-> "", deleting |-> FALSE, phase |-> "Pending"]]
    /\ store = {}
    /\ file = Missing
    /\ dec = NoDec
    /\ running = TRUE
    /\ carbonAwareMode = TRUE
    /\ InitCache
    /\ apiKey = TRUE
    /\ InitVolume
    /\ handler = [p \in PodNames |-> NotHandling]
    /\ InitNoRun

VolumeSpec == InitShared /\ [][NextVolume]_vars

\* The engine call by call among the other actors on the object store.
NextStep ==
    \/ \E p \in PodNames : Filter(p)
    \/ \E p \in PodNames : Score(p)
    \/ \E p \in PodNames : Bind(p)
    \/ \E n \in NodeNames : NodeReadyChange(n)
    \/ \E p \in PodNames, n \in NodeNames : OtherSchedulerBind(p, n)
    \/ \E p \in PodNames : PodReplaced(p)
    \/ \E regions \in RegionMaps : WriteCache(regions, "rfc3339")

StepSpec == Init /\ [][NextStep]_vars

\* The engine as the only one that binds: the pods of other schedulers are
\* where they were placed, within the nodes' capacity, before it starts.
InitPacked ==
    /\ nodes = [n \in NodeNames |-> [ready |-> TRUE, taints |-> InitialTaints[n]]]
    /\ \E n \in NodeNames \cup {NoNode} :
          /\ n # NoNode => \A d \in Dims :
                Quantity(Allocatable[n], d) >= SumContainers(PodSpec["pf"].containers, d, 1)
          /\ pods = [p \in PodNames |->
                      IF p = "pf" /\ n # NoNode
                      THEN [node |-> n, by |-> "other", deleting |-> FALSE, phase |-> "Running"]
                      ELSE [node |-> NoNode, by |-> "", deleting |-> FALSE, phase |-> "Pending"]]
    /\ store = {}
    /\ file = Missing
    /\ dec = NoDec
    /\ running = TRUE
    /\ carbonAwareMode \in BOOLEAN
    /\ InitCache
    /\ apiKey = TRUE
    /\ InitVolume
    /\ handler = [p \in PodNames |-> NotHandling]
    /\ InitNoRun

NextPacked ==
    \/ \E p \in PodNames : Filter(p)
    \/ \E p \in PodNames : Score(p)
    \/ \E p \in PodNames : Bind(p)
    \/ \E n \in NodeNames : NodeReadyChange(n)
    \/ \E p \in PodNames : PodReplaced(p)
    \/ \E regions \in RegionMaps : WriteCache(regions, "rfc3339")

PackedSpec == InitPacked /\ [][NextPacked]_vars

\* The engine and the life of the pods it has placed: a pod finishes, is
\* asked to stop, or is replaced by an unscheduled successor.
NextLifecycle ==
    \/ \E p \in PodNames : AddFunc(p)
    \/ \E p \in PodNames : PodFinished(p)
    \/ \E p \in PodNames : PodDeletionRequested(p)
    \/ \E p \in PodNames : PodReplaced(p)
    \/ \E n \in NodeNames : NodeReadyChange(n)

LifecycleSpec == Init /\ [][NextLifecycle]_vars

\* One invocation of the simulator: the five policies one after the other
\* on the same host slice, with one arrival in each run.
InvocationDraws == {d \in Draws : d.randVal \in {5, 9}}

InitInvocation ==
    /\ nodes = [n \in NodeNames |-> [ready |-> TRUE, taints |-> InitialTaints[n]]]
    /\ pods = [p \in PodNames |-> [node |-> NoNode, by |-> "", deleting |-> FALSE, phase |-> "Pending"]]
    /\ store = {}
    /\ file = Missing
    /\ dec = NoDec
    /\ running = TRUE
    /\ carbonAwareMode = TRUE
    /\ InitCache
    /\ apiKey = TRUE
    /\ InitVolume
    /\ handler = [p \in PodNames |-> NotHandling]
    /\ \E snap \in Snapshots, stream \in [1..Len(schedulers) -> InvocationDraws] :
          \E order \in HostOrders(snap) :
             cfg = [snapshot |-> snap, order |-> order, policy |-> schedulers[1],
                    Duration |-> 30, JobArrivalRate |-> 2, stream |-> stream]
    /\ sim = beginRun(cfg)

NextInvocation ==
    \/ SimTick
    \/ Arrive
    \/ DrainTick
    \/ Finish
    \/ NextRun

InvocationSpec == InitInvocation /\ [][NextInvocation]_vars

\* the tags of a mapping in ascending order of carbonIntensity
SortedTags(m) ==
    CHOOSE t \in [1..Cardinality(DOMAIN m) -> DOMAIN m] :
        /\ \A i, j \in DOMAIN t : i # j => t[i] # t[j]
        /\ \A i, j \in DOMAIN t :
              i < j => m[t[i]]["carbonIntensity"] <= m[t[j]]["carbonIntensity"]

\* the mappings the documents carry
DocumentMaps ==
    {("A" :> Rec(300) @@ "B" :> Rec(400)), ("A" :> Rec(400) @@ "B" :> Rec(300))}

\* the list and the tags that go with a mapping, as the cache format has them
Summary(m) ==
    [sorted_by_carbon |-> SortedTags(m),
     best_region |-> SortedTags(m)[1],
     worst_region |-> SortedTags(m)[Cardinality(DOMAIN m)]]

\* The file in its documented layout, and in the historical layouts: the
\* object the dispatcher's cache keeps (mapping, list and best tag together
\* under "regions"), the same with the worst tag, and the mapping alone one
\* level down with list and tags at the top.
Documents ==
    LET head == [kind |-> "json", timestamp |-> [format |-> "rfc3339", age |-> 0],
                 ttl_minutes |-> TTL]
        shapes(m) ==
            {head @@ [regions |-> m] @@ Summary(m),
             head @@ [regions |-> [regions |-> m,
                                   sorted_by_carbon |-> Summary(m).sorted_by_carbon,
                                   best_region |-> Summary(m).best_region]],
             head @@ [regions |-> [regions |-> m] @@ Summary(m)],
             head @@ [regions |-> [regions |-> m]] @@ Summary(m)}
    IN UNION {shapes(m) : m \in DocumentMaps}

\* The engine with the file in one of its layouts.
InitLoader ==
    /\ nodes = [n \in NodeNames |-> [ready |-> TRUE, taints |-> InitialTaints[n]]]
    /\ pods = [p \in PodNames |-> [node |-> NoNode, by |-> "", deleting |-> FALSE, phase |-> "Pending"]]
    /\ store = {}
    /\ file \in Documents
    /\ dec = NoDec
    /\ running = TRUE
    /\ carbonAwareMode = TRUE
    /\ InitCache
    /\ apiKey = TRUE
    /\ InitVolume
    /\ handler = [p \in PodNames |-> NotHandling]
    /\ InitNoRun

NextLoader ==
    \/ \E p \in PodNames : AddFunc(p)
    \/ \E n \in NodeNames : NodeReadyChange(n)
    \/ Tick

LoaderSpec == InitLoader /\ [][NextLoader]_vars

\* The engine on a cluster whose last node carries any of the label sets a
\* node can have: each of the three keys absent, empty or set.
LabelSets ==
    LET values(k, v) == {EmptyMap, (k :> ""), (k :> v)}
    IN {a @@ b @@ c : a \in values(regionLabel, "A"),
                      b \in values(defaultRegionLabel, "B"),
                      c \in values(zoneLabel, "C")}

\* the snapshots the file holds in these runs
LabelRegionMaps == {("A" :> Rec(300) @@ "B" :> Rec(400)), ("C" :> Rec(100))}

InitLabels ==
    /\ \E labels \in LabelSets :
          nodes = [n \in NodeNames |->
                     [ready |-> TRUE, taints |-> InitialTaints[n],
                      labels |-> IF n = NodeList[Len(NodeList)] THEN labels ELSE Labels[n]]]
    /\ pods = [p \in PodNames |-> [node |-> NoNode, by |-> "", deleting |-> FALSE, phase |-> "Pending"]]
    /\ store = {}
    /\ file = Missing
    /\ dec = NoDec
    /\ running = TRUE
    /\ carbonAwareMode = TRUE
    /\ InitCache
    /\ apiKey = TRUE
    /\ InitVolume
    /\ handler = [p \in PodNames |-> NotHandling]
    /\ InitNoRun

NextLabels ==
    \/ \E p \in PodNames : AddFunc(p)
    \/ \E regions \in LabelRegionMaps : WriteCache(regions, "rfc3339")

LabelSpec == InitLabels /\ [][NextLabels]_vars

\* One run of the simulator.  What the run is given is fixed when it starts:
\* the snapshot, the order in which the host list came out of the maps, the
\* policy, the configuration and the values math/rand will hand out.  The
\* program is sequential and takes its next step whenever it has one.
InitSim ==
    /\ nodes = [n \in NodeNames |-> [ready |-> TRUE, taints |-> InitialTaints[n]]]
    /\ pods = [p \in PodNames |-> [node |-> NoNode, by |-> "", deleting |-> FALSE, phase |-> "Pending"]]
    /\ store = {}
    /\ file = Missing
    /\ dec = NoDec
    /\ running = TRUE
    /\ carbonAwareMode = TRUE
    /\ InitCache
    /\ apiKey = TRUE
    /\ InitVolume
    /\ handler = [p \in PodNames |-> NotHandling]
    /\ \E snap \in Snapshots, policy \in Policies, duration \in Durations,
          rate \in ArrivalRates, stream \in [1..StreamLen -> Draws] :
          \E order \in HostOrders(snap) :
             cfg = [snapshot |-> snap, order |-> order, policy |-> policy,
                    Duration |-> duration, JobArrivalRate |-> rate,
                    stream |-> stream]
    /\ sim = beginRun(cfg)

NextSim ==
    \/ SimTick
    \/ Arrive
    \/ DrainTick
    \/ Finish

SimSpec == InitSim /\ [][NextSim]_vars /\ WF_vars(NextSim)

(***************************************************************************)
(* Vocabulary of the properties.  A state with dec.outcome # "none" is the *)
(* state right after AddFunc has run for dec.pod: nodes and file are as    *)
(* they were at the instant of the decision, and so is the placement of    *)
(* every pod other than dec.pod, which was unscheduled.                    *)
(***************************************************************************)
RECURSIVE SetSum(_, _)
SetSum(S, f) ==
    IF S = {} THEN 0
    ELSE LET x == CHOOSE y \in S : TRUE IN f[x] + SetSum(S \ {x}, f)

\* aggregate request of a unit in one dimension
Request(u, d) ==
    LET cs == PodSpec[u].containers IN
    SetSum(DOMAIN cs, [i \in DOMAIN cs |-> IF d \in DOMAIN cs[i] THEN cs[i][d] ELSE 0])

Capacity(h, d) == IF d \in DOMAIN Allocatable[h] THEN Allocatable[h][d] ELSE 0

\* allocation of host h by the live units bound to it, unit u left out
Allocated(h, d, u) ==
    LET bound == {q \in PodNames \ {u} : pods[q].node = h /\ ~pods[q].deleting} IN
    SetSum(bound, [q \in bound |-> Request(q, d)])

Fits(h, u) == \A d \in Dims : Capacity(h, d) - Allocated(h, d, u) >= Request(u, d)

Refusing(h) == \E t \in nodes[h].taints : t = "NoSchedule"

Admissible(h, u) == nodes[h].ready /\ ~Refusing(h) /\ Fits(h, u)

Index(h) == CHOOSE i \in 1..Len(NodeList) : NodeList[i] = h

SomeAdmissible(u) == \E h \in NodeNames : Admissible(h, u)

\* the first admissible host in iteration order
FirstAdmissible(u) ==
    CHOOSE h \in NodeNames :
        /\ Admissible(h, u)
        /\ \A g \in NodeNames : Admissible(g, u) => Index(h) <= Index(g)

Owned(u) == PodSpec[u].schedulerName = "custom-scheduler"

Decided == dec.outcome # "none"

\* region tag of a host: first non-empty label among the three keys
TagKeys == <<"carbon-region", "region", "topology.kubernetes.io/zone">>
TagAt(h, i) == IF TagKeys[i] \in DOMAIN nodeLabels(h) THEN nodeLabels(h)[TagKeys[i]] ELSE ""
RegionTag(h) ==
    IF \A i \in 1..3 : TagAt(h, i) = "" THEN ""
    ELSE TagAt(h, CHOOSE i \in 1..3 : TagAt(h, i) # "" /\ \A j \in 1..(i - 1) : TagAt(h, j) = "")

\* the region mapping of the snapshot in the file, whatever its layout
SnapshotRegions ==
    IF "regions" \in DOMAIN file.regions THEN file.regions["regions"] ELSE file.regions

Field(r, k) == IF k \in DOMAIN r THEN r[k] ELSE 0

\* a host has a reading when its region is in the snapshot with a positive
\* carbonIntensity, or with a positive moer in its place
HasReading(h) ==
    /\ file.kind = "json"
    /\ RegionTag(h) \in DOMAIN SnapshotRegions
    /\ \/ Field(SnapshotRegions[RegionTag(h)], "carbonIntensity") > 0
       \/ Field(SnapshotRegions[RegionTag(h)], "moer") > 0

Reading(h) ==
    IF Field(SnapshotRegions[RegionTag(h)], "carbonIntensity") > 0
    THEN Field(SnapshotRegions[RegionTag(h)], "carbonIntensity")
    ELSE Field(SnapshotRegions[RegionTag(h)], "moer")

Penalised(h) == IF HasReading(h) THEN Reading(h) ELSE 1000

\* the creation time embedded in the file lies more than the TTL in the past
Expired ==
    /\ file.kind = "json"
    /\ file.timestamp.format # "empty"
    /\ file.timestamp.age > file.ttl_minutes

Unloadable == file.kind \in {"missing", "malformed"} \/ Expired

\* the host carries no region label, or the snapshot does not list its region
Unlisted(h) ==
    \/ RegionTag(h) = ""
    \/ file.kind # "json"
    \/ RegionTag(h) \notin DOMAIN SnapshotRegions

C3_Original ==
    (Decided /\ carbonAwareMode /\ Unloadable /\ SomeAdmissible(dec.pod)) =>
        /\ dec.outcome # "skipped"
        /\ dec.target = FirstAdmissible(dec.pod)

\* C4: load returns an error for every snapshot whose embedded creation time
\* is older than its TTL, and no decision uses the intensities of such a
\* snapshot.
C4_Original ==
    Expired => (readCarbonCache.err /\ ~dec.loaded)

\* C5: with the carbon-aware policy off, the chosen host is the first
\* admissible host in iteration order, whatever the snapshot holds.
C5_PolicyOffFirstAdmissible ==
    (Decided /\ ~carbonAwareMode) =>
        /\ ~dec.loaded
        /\ SomeAdmissible(dec.pod) =>
              (dec.outcome # "skipped" /\ dec.target = FirstAdmissible(dec.pod))
        /\ ~SomeAdmissible(dec.pod) => dec.outcome = "skipped"

\* policy off, a loadable snapshot in which a later admissible host has a
\* strictly lower intensity than the first one, and the unit bound
C5_Witness ==
    /\ dec.outcome = "bound"
    /\ ~carbonAwareMode
    /\ file.kind = "json" /\ ~Expired
    /\ \E h \in NodeNames :
          /\ Admissible(h, dec.pod) /\ HasReading(h) /\ HasReading(dec.target)
          /\ Reading(h) < Reading(dec.target)

\* C6: a unit that names another scheduler is never filtered, scored or
\* bound by the engine.
C6_ForeignUnitUntouched ==
    \A u \in PodNames :
        ~Owned(u) => (dec.pod # u /\ pods[u].by # "engine")

\* the notification of a foreign unit has been delivered to the handler
C6_Witness ==
    \E u \in PodNames : ~Owned(u) /\ u \in store /\ pods[u].node = NoNode

C8_EmptyRequestFitsAnywhere ==
    (Decided /\ \A i \in DOMAIN PodSpec[dec.pod].containers :
                    DOMAIN PodSpec[dec.pod].containers[i] = {}) =>
        \A h \in NodeNames :
            (nodes[h].ready /\ ~Refusing(h)) =>
                \E i \in DOMAIN dec.avail : dec.avail[i] = h

\* a unit without requests was bound to a host whose CPU was fully allocated
C8_Witness ==
    /\ dec.outcome = "bound"
    /\ \A d \in Dims : Request(dec.pod, d) = 0
    /\ Capacity(dec.target, "cpu") - Allocated(dec.target, "cpu", dec.pod) = 0

\* C9: after a rejected bind the engine is still running, has called bind
\* once and holds no second notification for the unit, and the unit is
\* still unbound.
C9_BindFailureNonFatal ==
    (dec.outcome = "errored") =>
        /\ running
        /\ dec.binds = 1
        /\ pods[dec.pod].node = NoNode
        /\ dec.pod \in store

\* a bind was rejected while another owned unit still awaits its turn
C9_Witness ==
    /\ dec.outcome = "errored"
    /\ \E u \in PodNames \ {dec.pod} : Owned(u) /\ pods[u].node = NoNode /\ u \notin store

\* C10: an owned unit that stays unplaced is considered again, so that it is
\* eventually bound once some host is admissible for it for good.
C10_Original ==
    \A u \in {q \in PodNames : Owned(q)} :
        [](([]SomeAdmissible(u)) => <>(pods[u].node # NoNode))

\* C11: with the carbon-aware policy on, when no admissible host carries a
\* region label that the snapshot lists, the unit is not skipped: the engine
\* binds it to the first admissible host in iteration order.
C11_UnlistedRegionsFirstAdmissible ==
    (/\ Decided /\ carbonAwareMode /\ SomeAdmissible(dec.pod)
     /\ \A h \in NodeNames : Admissible(h, dec.pod) => Unlisted(h)) =>
        /\ dec.outcome # "skipped"
        /\ dec.binds = 1
        /\ dec.target = FirstAdmissible(dec.pod)
        /\ dec.outcome = "bound" => pods[dec.pod].node = FirstAdmissible(dec.pod)

\* the snapshot was loaded, two or more hosts were admissible, among them one
\* without region label and one whose region the snapshot does not list, and
\* the unit was bound
C11_Witness ==
    /\ dec.outcome = "bound"
    /\ dec.loaded
    /\ \A h \in NodeNames : Admissible(h, dec.pod) => Unlisted(h)
    /\ \E g, h \in NodeNames :
          /\ Admissible(g, dec.pod) /\ RegionTag(g) = ""
          /\ Admissible(h, dec.pod) /\ RegionTag(h) # ""

\* position of a zone in the list the cache polls
ZoneIndex(z) == CHOOSE i \in 1..Len(zones) : zones[i] = z

\* C12: a poll cycle in which no zone succeeded leaves a stored snapshot
\* that holds regions as it was.
C12_Original ==
    [][(/\ pollLog'.result = "returned"
        /\ pollLog'.fetched = {}
        /\ regionIntensity # NullObject
        /\ DOMAIN regionIntensity.regions.regions # {})
          => regionIntensity' = regionIntensity]_vars

\* C13: a poll in which every zone failed ends with an error; any other
\* poll ends with a snapshot that holds exactly the zones that succeeded.
C13_Original ==
    (apiKey /\ pollLog.result \in {"returned", "threw"}) =>
        IF pollLog.fetched = {}
        THEN pollLog.result = "threw"
        ELSE /\ pollLog.result = "returned"
             /\ DOMAIN regionIntensity.regions.regions = pollLog.fetched

\* C14: in the stored snapshot sorted_by_carbon is a permutation of the keys
\* of regions in stable ascending order of carbonIntensity, best_region is
\* its first and worst_region its last entry, and both are null when there
\* is no region.
C14_Original ==
    regionIntensity # NullObject =>
        LET r == regionIntensity.regions
            keys == DOMAIN r.regions
            s == r.sorted_by_carbon
        IN  /\ Len(s) = Cardinality(keys)
            /\ {s[i] : i \in 1..Len(s)} = keys
            /\ \A i, j \in 1..Len(s) :
                  i < j => \/ r.regions[s[i]].carbonIntensity < r.regions[s[j]].carbonIntensity
                           \/ /\ r.regions[s[i]].carbonIntensity = r.regions[s[j]].carbonIntensity
                              /\ ZoneIndex(s[i]) < ZoneIndex(s[j])
            /\ IF keys = {}
               THEN /\ Prop(r, "best_region") = Null
                    /\ Prop(r, "worst_region") \in {Null, Undefined}
               ELSE /\ Prop(r, "best_region") = s[1]
                    /\ Prop(r, "worst_region") = s[Len(s)]

\* C15: a load that runs while the poller replaces the file ends with all
\* blocks of one snapshot, and that snapshot is the one the path named when
\* the load began or one installed since; it never ends with part of a
\* snapshot or with blocks of two.
C15_ReadSeesWholeSnapshot ==
    (reader.pc = "done" /\ ~reader.err) =>
        \E v \in 1..MaxWrites :
            /\ reader.data = [k \in 1..Blocks |-> v]
            /\ v <= reader.installed

\* a load has ended that began before a rename and ended after it
C15_Witness ==
    /\ reader.pc = "done"
    /\ ~reader.err
    /\ reader.installed # reader.fd
    /\ Len(reader.data) = Blocks

\* the units whose handling has begun and not ended
InHand == {q \in PodNames : handler[q].pc # "idle"}

\* C19: at most one unit is in the filter, score, bind sequence at a time,
\* and the placement the filter saw for it has every bind the engine has
\* committed.
C19_OneUnitAtATime ==
    /\ Cardinality(InHand) <= 1
    /\ \A q \in InHand : \A u \in PodNames :
          (pods[u].node # NoNode /\ pods[u].by = "engine")
              => handler[q].view[u].node = pods[u].node

\* a unit is between score and bind, an earlier unit is placed by the
\* engine, and a third owned unit awaits its notification
C19_Witness ==
    \E q \in InHand :
        /\ handler[q].pc = "scored"
        /\ \E u \in PodNames \ {q} : pods[u].node # NoNode /\ pods[u].by = "engine"
        /\ \E w \in PodNames \ {q} : Owned(w) /\ pods[w].node = NoNode /\ w \notin store

\* allocation of host h by all live units bound to it
AllocatedAll(h, d) ==
    LET bound == {q \in PodNames : pods[q].node = h /\ ~pods[q].deleting} IN
    SetSum(bound, [q \in bound |-> Request(q, d)])

SimDone == sim.pc = "done"
\* every host queue is empty and no unit is running
Drained ==
    \A r \in DOMAIN sim.nodes :
        sim.nodes[r].Queue = <<>> /\ sim.nodes[r].RunningJobs = <<>>
\* 48 hours of logical time after the configured end
Cap == cfg.Duration + 48 * Hour
\* the same run with the host list in another order the maps can give
Reordered(order) == [cfg EXCEPT !.order = order]

\* C16: for a fixed snapshot, configuration, policy and seed, two runs report
\* identical values for every metric: whatever order the host list comes out
\* in, the results are the same.
C16_Original ==
    SimDone =>
        \A order \in HostOrders(cfg.snapshot) :
            runSimulation(beginRun(Reordered(order)), Reordered(order)).results
                = sim.results

C17_Bounded ==
    /\ sim.pc \in {"drain", "done"} => sim.currentTime >= cfg.Duration
    /\ sim.currentTime < Cap + tickInterval
    /\ SimDone => (Drained \/ sim.currentTime >= Cap)
C17_Step ==
    /\ (sim.pc = "drain" /\ Drained) =>
            (sim'.pc = "done" /\ sim'.currentTime = sim.currentTime)
    /\ (sim.pc = "drain" /\ sim'.pc = "drain") =>
            (sim.currentTime < Cap /\ sim'.currentTime = sim.currentTime + tickInterval)
C18_ZeroArrivalsZeroMetrics ==
    (SimDone /\ sim.jobID = 0) =>
        /\ sim.results.TotalJobs = 0
        /\ sim.results.CompletedJobs = 0
        /\ sim.results.TotalCarbon = 0
        /\ sim.results.AverageUtilization = 0
        /\ DOMAIN sim.results.JobsByRegion = {}
        /\ DOMAIN sim.results.RegionDistribution = {}
        /\ DOMAIN sim.results.CarbonByRegion = {}
\* a run of positive duration in which no unit arrived
C18_Witness ==
    /\ SimDone
    /\ sim.jobID = 0
    /\ cfg.Duration > 0
    /\ Len(cfg.order) > 0

(***************************************************************************)
(* The engine: the course of one handling, the scores, the allocation      *)
(***************************************************************************)
\* the hosts of a filtered list
Hosts(list) == {list[i] : i \in DOMAIN list}

C21_Outcome ==
    Decided =>
        /\ dec.binds <= 1
        /\ dec.outcome = "skipped" <=> dec.avail = <<>>
        /\ dec.outcome = "skipped" => (dec.binds = 0 /\ dec.target = NoNode)
        /\ dec.outcome \in {"bound", "errored"} =>
              (dec.binds = 1 /\ dec.target \in Hosts(dec.avail))
C21_Course ==
    \A u \in PodNames :
        \* the admissible set is computed for a unit that has just been observed
        /\ (handler'[u] # handler[u] /\ handler'[u].pc = "filtered") =>
              handler[u].pc = "idle"
        \* a host is selected from a computed set that is not empty
        /\ (handler'[u] # handler[u] /\ handler'[u].pc = "scored") =>
              /\ handler[u].pc = "filtered"
              /\ handler[u].avail # <<>>
              /\ handler'[u].avail = handler[u].avail
              /\ handler'[u].node \in Hosts(handler[u].avail)
              /\ pods' = pods
        \* with an empty set the unit is skipped and nothing is bound
        /\ (handler[u].pc = "filtered" /\ handler'[u].pc = "idle") =>
              /\ handler[u].avail = <<>>
              /\ dec' = [NoDec EXCEPT !.pod = u, !.outcome = "skipped"]
              /\ pods' = pods
        \* one bind on the selected host ends the handling, bound or errored
        /\ (handler[u].pc = "scored" /\ handler'[u] # handler[u]) =>
              /\ handler'[u].pc = "idle"
              /\ dec'.pod = u
              /\ dec'.binds = 1
              /\ dec'.target = handler[u].node
              /\ \/ dec'.outcome = "bound" /\ pods'[u].node = handler[u].node
                 \/ dec'.outcome = "errored" /\ pods' = pods
        \* the engine binds a unit in no other step
        /\ (pods'[u] # pods[u] /\ pods'[u].by = "engine") => handler[u].pc = "scored"
\* C21: a handled unit goes from observed to admissible-set-computed, then,
\* the set being empty, to skipped without a bind, and otherwise to scored
\* and, with exactly one bind on a host of the computed set, to bound or
\* errored; it is skipped exactly when the computed set is empty.
C21_ObservedFilteredScoredDecided ==
    /\ []C21_Outcome
    /\ [][C21_Course]_vars
\* a bind on a host other than the first of a set of two or more failed
C21_Witness ==
    /\ dec.outcome = "errored"
    /\ dec.loaded
    /\ Len(dec.avail) >= 2
    /\ dec.target # dec.avail[1]

\* C22: a host with the sentinel score is never selected while some
\* admissible host has a real snapshot reading, whatever that reading is.
C22_Original ==
    (Decided /\ dec.loaded /\ dec.target # NoNode /\ Unlisted(dec.target)) =>
        \A h \in NodeNames : Admissible(h, dec.pod) => ~HasReading(h)

\* the score the claim gives a host: the sentinel without region tag or
\* with a tag the snapshot does not list, else carbonIntensity, or moer
\* when carbonIntensity is 0 or missing
ClaimedScore(h) ==
    IF RegionTag(h) = "" \/ RegionTag(h) \notin DOMAIN SnapshotRegions THEN 1000
    ELSE IF Field(SnapshotRegions[RegionTag(h)], "carbonIntensity") # 0
         THEN Field(SnapshotRegions[RegionTag(h)], "carbonIntensity")
         ELSE Field(SnapshotRegions[RegionTag(h)], "moer")

\* C23: with the snapshot loaded, every admissible host is scored with the
\* carbonIntensity of its region, or the region's moer when carbonIntensity
\* is 0 or missing, and with the sentinel 1000 when it has no region label
\* or its region is not in the snapshot.
C23_Original ==
    (Decided /\ dec.loaded) =>
        \A h \in Hosts(dec.avail) :
            nodeScore(h, readCarbonCache.Regions) = ClaimedScore(h)

\* what the live units bound to host h have requested: the units that are
\* neither terminating nor completed or failed
LiveAllocated(h, d) ==
    LET live == {q \in PodNames : /\ pods[q].node = h
                                  /\ ~pods[q].deleting
                                  /\ pods[q].phase \notin {"Succeeded", "Failed"}}
    IN SetSum(live, [q \in live |-> Request(q, d)])

\* C24: the allocated amount of the fit check is the sum of the requests of
\* the live units bound to the host; terminating units are left out, and a
\* completed or failed unit takes nothing from the host's free capacity.
C24_Original ==
    \A h \in NodeNames : \A d \in Dims :
        getNodeAllocatedResources(h)[d] = LiveAllocated(h, d)

(***************************************************************************)
(* The simulator: ticks, arrivals, queues                                  *)
(***************************************************************************)
SimHosts == DOMAIN sim.nodes
\* the units running on, and waiting for, a host
RunningOn(s, r) == Hosts(s.nodes[r].RunningJobs)
QueuedOn(s, r) == Hosts(s.nodes[r].Queue)
\* the step is a tick of either loop, taken at logical time sim.currentTime
TickStep == sim'.currentTime = sim.currentTime + tickInterval
\* the step creates a unit
ArrivalStep == sim'.jobID = sim.jobID + 1
\* intensity of the host of a region
Intensity(r) ==
    IF r \in DOMAIN cfg.snapshot THEN cfg.snapshot[r] ELSE additionalRegions[r]
\* what the units on host r whose completion time is <= now hold
Released(r, field) ==
    LET over == {j \in RunningOn(sim, r) : sim.jobs[j].CompletedAt <= sim.currentTime}
    IN SetSum(over, [j \in over |-> sim.jobs[j][field]])

\* C25: on every tick the completions whose completion time is <= now are
\* drained and their resources released before the queues are scanned: the
\* first unit in a host's queue starts in the tick in which what it needs
\* is free once those completions are released.
C25_Original ==
    [][TickStep =>
        \A r \in SimHosts :
            (/\ sim.nodes[r].Queue # <<>>
             /\ sim.nodes[r].AvailableCPU + Released(r, "CPURequest")
                    >= sim.jobs[sim.nodes[r].Queue[1]].CPURequest
             /\ sim.nodes[r].AvailableMemory + Released(r, "MemoryRequest")
                    >= sim.jobs[sim.nodes[r].Queue[1]].MemoryRequest)
                => sim'.jobs[sim.nodes[r].Queue[1]].StartedAt = sim.currentTime]_vars

\* C26: under the carbon-aware policy a unit that has to wait is put in the
\* queue of a host of the lowest intensity, whatever the estimated waits.
C26_Original ==
    cfg.policy = "CarbonAware" =>
        \A r \in SimHosts :
            sim.nodes[r].Queue # <<>> => \A q \in SimHosts : Intensity(r) <= Intensity(q)

C27_Placement ==
    ArrivalStep =>
        LET j == Len(sim'.jobs)
            unit == sim'.jobs[j]
            room(r) == /\ sim.nodes[r].AvailableCPU >= unit.CPURequest
                       /\ sim.nodes[r].AvailableMemory >= unit.MemoryRequest
            runs == {r \in SimHosts : j \in RunningOn(sim', r)}
            waits == {r \in SimHosts : j \in QueuedOn(sim', r)}
        IN /\ j = Len(sim.jobs) + 1
           /\ unit.CreatedAt = sim.currentTime
           /\ \/ /\ \E r \in SimHosts : room(r) /\ runs = {r} /\ unit.Region = r
                 /\ waits = {}
                 /\ unit.StartedAt = sim.currentTime
              \/ /\ \A r \in SimHosts : ~room(r)
                 /\ runs = {}
                 /\ \E r \in SimHosts : waits = {r} /\ unit.Region = r
                 /\ unit.StartedAt = ZeroTime
\* C27: every arrival is started at once on a host that has room for it, or,
\* only when no host has room, put in the queue of exactly one host; none
\* is dropped.
C27_StartedOrQueued == [][C27_Placement]_vars
\* one unit runs and another waits
C27_Witness ==
    /\ \E r \in SimHosts : sim.nodes[r].RunningJobs # <<>>
    /\ \E r \in SimHosts : sim.nodes[r].Queue # <<>>
    /\ sim.jobID >= 2

C28_Accounts ==
    \A r \in SimHosts :
        /\ 0 <= sim.nodes[r].AvailableCPU /\ sim.nodes[r].AvailableCPU <= 4
        /\ 0 <= sim.nodes[r].AvailableMemory /\ sim.nodes[r].AvailableMemory <= 8
        /\ Cardinality(RunningOn(sim, r)) = Len(sim.nodes[r].RunningJobs)
        /\ 4 - sim.nodes[r].AvailableCPU =
              SetSum(RunningOn(sim, r),
                     [j \in RunningOn(sim, r) |-> sim.jobs[j].CPURequest])
        /\ 8 - sim.nodes[r].AvailableMemory =
              SetSum(RunningOn(sim, r),
                     [j \in RunningOn(sim, r) |-> sim.jobs[j].MemoryRequest])
C28_StartAndRelease ==
    \A r \in SimHosts : \A j \in DOMAIN sim'.jobs :
        \* a unit that starts had not started before
        /\ (j \in RunningOn(sim', r) /\ j \notin RunningOn(sim, r)) =>
              (j \in DOMAIN sim.jobs => sim.jobs[j].StartedAt = ZeroTime)
        \* a unit leaves its host at its completion, not before
        /\ (j \in DOMAIN sim.jobs /\ j \in RunningOn(sim, r) /\ j \notin RunningOn(sim', r)) =>
              sim.jobs[j].CompletedAt <= sim.currentTime
ArrivalStamps == cfg.Duration \div (60 \div cfg.JobArrivalRate)

\* C29: the number of units created in a run is, to within one, the number
\* of arrival stamps inside the configured duration, also when the mean
\* inter-arrival time is shorter than the tick.
C29_Original ==
    SimDone =>
        /\ sim.jobID >= ArrivalStamps - 1
        /\ sim.jobID <= ArrivalStamps + 1

\* C30: no unit is created once logical time has reached the end of the
\* configured duration.
C30_Original ==
    \A j \in DOMAIN sim.jobs : sim.jobs[j].CreatedAt < cfg.Duration

(***************************************************************************)
(* The simulator: how long a unit holds its host, which host it gets       *)
(***************************************************************************)
\* C31: a started unit holds its host's resources for its blocking time
\* only: once a tick has been taken at or after the end of that time the
\* unit is no longer among the host's running units.
C31_Original ==
    \A r \in SimHosts : \A j \in RunningOn(sim, r) :
        sim.jobs[j].StartedAt + sim.jobs[j].BlockingTime > sim.currentTime - tickInterval

\* the units bound to a host: running there or, with the queue counted,
\* running or waiting there
BoundTo(s, r) == Len(s.nodes[r].RunningJobs)
BoundOrQueued(s, r) == Len(s.nodes[r].RunningJobs) + Len(s.nodes[r].Queue)

\* C32: under round-robin a unit that can start at once starts on a host
\* that, among the hosts with room for it, has the fewest units bound to it.
C32_Original ==
    [][(ArrivalStep /\ cfg.policy = "RoundRobin") =>
        LET j == Len(sim'.jobs)
            unit == sim'.jobs[j]
            room(r) == /\ sim.nodes[r].AvailableCPU >= unit.CPURequest
                       /\ sim.nodes[r].AvailableMemory >= unit.MemoryRequest
        IN \A r \in SimHosts :
              j \in RunningOn(sim', r) =>
                  \A q \in SimHosts :
                      room(q) => \/ BoundTo(sim, r) <= BoundTo(sim, q)
                                 \/ BoundOrQueued(sim, r) <= BoundOrQueued(sim, q)]_vars

\* the unit's request is within the total capacity of a host
FitsHost(job) == job.CPURequest <= 4 /\ job.MemoryRequest <= 8
\* the unit waited in a queue before it started
Waited(job) == job.StartedAt # ZeroTime /\ job.StartedAt > job.CreatedAt
\* the unit has run to its completion and left its host
Left(j) ==
    /\ sim.jobs[j].StartedAt # ZeroTime
    /\ sim.jobs[j].CompletedAt <= sim.currentTime
    /\ \A r \in SimHosts : j \notin RunningOn(sim, r)

C33_AtTheEnd ==
    SimDone =>
        \A j \in DOMAIN sim.jobs :
            FitsHost(sim.jobs[j]) =>
                /\ sim.jobs[j].StartedAt # ZeroTime
                /\ \A r \in SimHosts : j \notin QueuedOn(sim, r)
                /\ Left(j) \/ sim.currentTime >= Cap
\* on a host nothing runs on, the first waiting unit that fits the host
\* starts in the next tick
C33_IdleHostStarts ==
    TickStep =>
        \A r \in SimHosts : \A i \in DOMAIN sim.nodes[r].Queue :
            (/\ sim.nodes[r].RunningJobs = <<>>
             /\ FitsHost(sim.jobs[sim.nodes[r].Queue[i]])
             /\ \A k \in 1..(i - 1) : ~FitsHost(sim.jobs[sim.nodes[r].Queue[k]]))
                => sim'.jobs[sim.nodes[r].Queue[i]].StartedAt = sim.currentTime
InFlight == {c \in Callers : callers[c].pc = "fetch"}

\* C34: at most one poll cycle is in flight at any time.
C34_Original == Cardinality(InFlight) <= 1

\* C35: every region of a stored snapshot has a carbon intensity greater
\* than 0.
C35_Original ==
    regionIntensity # NullObject =>
        \A z \in DOMAIN regionIntensity.regions.regions :
            regionIntensity.regions.regions[z].carbonIntensity > 0

(***************************************************************************)
(* The loader and the layouts of the file                                  *)
(***************************************************************************)
\* the file has its mapping one level down
Nested(doc) == doc.kind = "json" /\ "regions" \in DOMAIN doc.regions
\* the same snapshot in the documented layout: mapping, list and tags at
\* the top level, wherever the nested document has them
FlatOf(doc) ==
    LET inner == doc.regions
        key(k) == IF k \in DOMAIN inner THEN (k :> inner[k])
                  ELSE IF k \in DOMAIN doc THEN (k :> doc[k]) ELSE EmptyMap
    IN [kind |-> doc.kind, timestamp |-> doc.timestamp, ttl_minutes |-> doc.ttl_minutes,
        regions |-> inner.regions]
       @@ key("sorted_by_carbon") @@ key("best_region") @@ key("worst_region")

\* C36: a file in the nested layout is loaded as the same snapshot (mapping,
\* sorted order, best and worst tags) as the same content in the flat layout.
C36_Original ==
    (Decided /\ dec.loaded /\ Nested(file)) =>
        flattenAndUnmarshal(file) = flattenAndUnmarshal(FlatOf(file))

(***************************************************************************)
(* The simulator: the runs of one invocation, the metrics of a run         *)
(***************************************************************************)
\* a run stands at its start: nothing has arrived and no tick was taken
AtStart == sim.pc \in {"tick", "arrive", "drain"} /\ sim.currentTime = 0 /\ sim.jobID = 0

\* C37: at the start of a run every host has its full CPU and memory, an
\* empty queue and no running unit, whatever the run before left behind.
C37_RunStartsClean ==
    AtStart =>
        /\ sim.jobs = <<>>
        /\ \A r \in SimHosts :
              /\ sim.nodes[r].AvailableCPU = 4
              /\ sim.nodes[r].AvailableMemory = 8
              /\ sim.nodes[r].Queue = <<>>
              /\ sim.nodes[r].RunningJobs = <<>>
\* a run starts after a run the cap ended with a unit still in a queue
C37_Witness ==
    /\ AtStart
    /\ cfg.policy # schedulers[1]
    /\ sim.results.FailedJobs > 0

\* main goes from one run to the next
NextRunStep == cfg'.policy # cfg.policy

\* C38: the next policy's run receives the units the last one received, of
\* the same kinds, durations and requests, and the host slice in the same
\* order.
C38_Original ==
    [][NextRunStep =>
        /\ cfg'.order = cfg.order
        /\ \A j \in DOMAIN sim.jobs :
              LET unit == createJob(j - 1, cfg'.stream[j], sim.jobs[j].CreatedAt)
              IN /\ unit.Type = sim.jobs[j].Type
                 /\ unit.Duration = sim.jobs[j].Duration
                 /\ unit.CPURequest = sim.jobs[j].CPURequest
                 /\ unit.MemoryRequest = sim.jobs[j].MemoryRequest]_vars

\* the units of the run that ran to their completion before the loop stopped
Completed == {j \in DOMAIN sim.jobs :
                 sim.jobs[j].StartedAt # ZeroTime /\ sim.jobs[j].CompletedAt <= sim.currentTime}
MapSum(m) == SetSum(DOMAIN m, m)

\* C39: completed + failed is the number of units created, the completed
\* count is the number of units that reached their completion before the
\* loop stopped, the per-region counts sum to it, and the per-region carbon
\* totals sum to the total carbon, the sum of the intensities of the hosts
\* of the completed units.
C39_Original ==
    SimDone =>
        /\ sim.results.CompletedJobs + sim.results.FailedJobs = sim.jobID
        /\ sim.results.CompletedJobs = Cardinality(Completed)
        /\ MapSum(sim.results.JobsByRegion) = sim.results.CompletedJobs
        /\ MapSum(sim.results.CarbonByRegion) = sim.results.TotalCarbon
        /\ sim.results.TotalCarbon =
              SetSum(Completed, [j \in Completed |-> Intensity(sim.jobs[j].Region)])

(***************************************************************************)
(* The region tag of a host                                                *)
(***************************************************************************)
\* none of the three labels of the host is there with a value
Untagged(h) == \A i \in 1..3 : TagAt(h, i) = ""

C40_TagOfEveryHost ==
    \A h \in NodeNames :
        /\ getNodeRegion(h) = RegionTag(h)
        /\ getNodeRegion(h) = "" <=> Untagged(h)
\* the host the engine takes has the least score by its region tag
C40_TagDecides ==
    (Decided /\ dec.loaded /\ dec.target # NoNode) =>
        \A h \in Hosts(dec.avail) :
            nodeScore(dec.target, readCarbonCache.Regions) <= Penalised(h)
\* C40: the region tag of a host is the value of the first non-empty label
\* among carbon-region, region and topology.kubernetes.io/zone, in that
\* order, and there is none only when all three are absent or empty.
C40_FirstNonEmptyLabel == C40_TagOfEveryHost /\ C40_TagDecides
\* the engine has taken a host for the intensity of the region its zone
\* label names, the two labels before it absent or empty
C40_Witness ==
    /\ Decided /\ dec.loaded
    /\ dec.target = NodeList[Len(NodeList)]
    /\ TagAt(dec.target, 1) = "" /\ TagAt(dec.target, 2) = ""
    /\ TagAt(dec.target, 3) = "C"
    /\ HasReading(dec.target)
    /\ Len(dec.avail) >= 2

=============================================================================
